---------------------------- MODULE Spec2Model ----------------------------
(***************************************************************************)
(* A model of `send` (src/main.rs): a desktop HTTP client built on egui.   *)
(* The model covers the variable resolver (resolve_value), the folder-tree *)
(* addressor (get_folder_by_path / get_folder_by_path_mut), the workspace  *)
(* store operations that address through the selection cursor, and the    *)
(* bridge between the UI event loop and the background request task        *)
(* (send_request, the spawned task, the per-frame poll in update).         *)
(*                                                                         *)
(* Text is a sequence of one-character strings.  Rust's Option<T> is a     *)
(* sequence of length at most one.  Indices keep Rust's 0-based values;    *)
(* At(s, i) reads element i of a Vec.                                      *)
(***************************************************************************)
EXTENDS Integers, Sequences, FiniteSets, TLC

VARIABLES
    workspaces,          \* SendApp.workspaces : Vec<Workspace>
    current_workspace,   \* SendApp.current_workspace : usize
    current_request,     \* SendApp.current_request : HttpRequest
    current_response,    \* SendApp.current_response : Option<HttpResponse>
    is_loading,          \* SendApp.is_loading : bool
    response_receiver,   \* SendApp.response_receiver : Option<Receiver>, the channel's id
    channels,            \* every mpsc channel created so far, by id (1-based)
    tasks,               \* every task spawned on the runtime so far
    new_request_dialog,  \* SendApp.new_request_dialog
    new_request_name,    \* SendApp.new_request_name
    new_folder_dialog,   \* SendApp.new_folder_dialog
    new_folder_name,     \* SendApp.new_folder_name
    new_collection_dialog,   \* SendApp.new_collection_dialog
    new_collection_name,     \* SendApp.new_collection_name
    new_environment_dialog,  \* SendApp.new_environment_dialog
    new_environment_name,    \* SendApp.new_environment_name
    new_workspace_dialog,    \* SendApp.new_workspace_dialog
    new_workspace_name,      \* SendApp.new_workspace_name
    disk,                \* the file system: path -> Option<file content>
    next_id              \* the number of ids Uuid::new_v4 has handed out

vars == <<workspaces, current_workspace, current_request, current_response,
          is_loading, response_receiver, channels, tasks,
          new_request_dialog, new_request_name, new_folder_dialog,
          new_folder_name, new_collection_dialog, new_collection_name,
          new_environment_dialog, new_environment_name,
          new_workspace_dialog, new_workspace_name, disk, next_id>>

bridgeVars == <<current_response, is_loading, response_receiver, channels, tasks>>
collectionDialogVars == <<new_collection_dialog, new_collection_name>>
environmentDialogVars == <<new_environment_dialog, new_environment_name>>
workspaceDialogVars == <<new_workspace_dialog, new_workspace_name>>
dialogVars == <<new_request_dialog, new_request_name, new_folder_dialog, new_folder_name,
                collectionDialogVars, environmentDialogVars, workspaceDialogVars>>

-----------------------------------------------------------------------------
(* Option<T> and Vec<T> *)

None == <<>>
Some(x) == <<x>>
IsSome(o) == o # <<>>
Unwrap(o) == o[1]

At(s, i) == s[i + 1]
SetAt(s, i, x) == [s EXCEPT ![i + 1] = x]
Push(s, x) == Append(s, x)
Indices(s) == 0 .. (Len(s) - 1)

RECURSIVE Concat(_)
Concat(ss) == IF ss = <<>> THEN <<>> ELSE Head(ss) \o Concat(Tail(ss))

-----------------------------------------------------------------------------
(* Text *)

Whitespace == {" "}

\* str::trim().is_empty()
IsBlank(s) == \A i \in DOMAIN s : s[i] \in Whitespace

\* pat occurs in s starting at (1-based) position p
OccursAt(s, pat, p) ==
    /\ p >= 1
    /\ p + Len(pat) - 1 <= Len(s)
    /\ SubSeq(s, p, p + Len(pat) - 1) = pat

\* str::contains
Contains(s, pat) == \E p \in 1 .. (Len(s) + 1) : OccursAt(s, pat, p)

\* str::replace(pat, rep) for a non-empty pat: scan from the left, replace each
\* match and resume after it (matches never overlap, inserted text is not
\* scanned again in the same call).
RECURSIVE ReplaceFrom(_, _, _, _)
ReplaceFrom(s, pat, rep, p) ==
    IF p > Len(s) THEN <<>>
    ELSE IF OccursAt(s, pat, p) THEN rep \o ReplaceFrom(s, pat, rep, p + Len(pat))
    ELSE <<s[p]>> \o ReplaceFrom(s, pat, rep, p + 1)

\* str::replacen(pat, rep, 1): only the first match is replaced.
ReplaceFirstOnly(s, pat, rep) ==
    IF Contains(s, pat)
    THEN LET p == CHOOSE q \in 1 .. Len(s) :
                     /\ OccursAt(s, pat, q)
                     /\ \A r \in 1 .. (q - 1) : ~OccursAt(s, pat, r)
         IN SubSeq(s, 1, p - 1) \o rep \o SubSeq(s, p + Len(pat), Len(s))
    ELSE s

ReplaceAll(s, pat, rep) == ReplaceFrom(s, pat, rep, 1)

\* format!("{{{{{}}}}}", key) with the closing braces left out of the format string
PlaceholderUnclosed(key) == <<"{", "{">> \o key

\* format!("{{{{{}}}}}", key): two opening braces, the key, two closing braces
Placeholder(key) == <<"{", "{">> \o key \o <<"}", "}">>

\* the loop of resolve_value over env.variables, in list order
RECURSIVE ResolveWith(_, _)
ResolveWith(result, variables) ==
    IF variables = <<>> THEN result
    ELSE ResolveWith(ReplaceAll(result, Placeholder(Head(variables)[1]), Head(variables)[2]),
                     Tail(variables))

\* resolve_value with the check of selected_environment left out: the first
\* environment is used whenever there is one.
ResolveIgnoringSelection(ws, input) ==
    IF Len(ws.environments) > 0
    THEN ResolveWith(input, ws.environments[1].variables)
    ELSE input

\* resolve_value against a workspace
ResolveIn(ws, input) ==
    IF /\ IsSome(ws.selected_environment)
       /\ Unwrap(ws.selected_environment) < Len(ws.environments)
    THEN ResolveWith(input, At(ws.environments, Unwrap(ws.selected_environment)).variables)
    ELSE input

resolve_value(input) == ResolveIn(At(workspaces, current_workspace), input)

-----------------------------------------------------------------------------
(* Bounds of the model *)

MaxPieces == 2        \* pieces of text typed into a field
MaxVars == 2          \* variables of an environment
MaxSends == 2         \* requests dispatched in one run
MaxWorkspaces == 2    \* open workspaces
MaxCollections == 2   \* collections of a workspace
MaxCreated == 1       \* ids generated through the dialogs in one run
MaxEnvironments == 2  \* environments of a workspace
MaxVariables == 1     \* variables of an environment edited in the panel
MaxKeys == 3          \* variables of an environment whose keys are compared

-----------------------------------------------------------------------------
(* The data model: HttpRequest, Folder, Collection, Environment, Workspace *)

T_Root == <<"R", "o", "o", "t">>
T_Default == <<"D", "e", "f", "a", "u", "l", "t">>
T_NewRequest == <<"N", "e", "w", " ", "R", "e", "q", "u", "e", "s", "t">>
T_HttpbinUrl ==
    <<"h", "t", "t", "p", "s", ":", "/", "/", "h", "t", "t", "p", "b", "i", "n",
      ".", "o", "r", "g", "/", "g", "e", "t">>
T_ContentType == <<"C", "o", "n", "t", "e", "n", "t", "-", "T", "y", "p", "e">>
T_ApplicationJson ==
    <<"a", "p", "p", "l", "i", "c", "a", "t", "i", "o", "n", "/", "j", "s", "o", "n">>

HttpRequest(id, name, method, url, headers, body, body_type, form_data, url_encoded_data, query_params) ==
    [id |-> id, name |-> name, method |-> method, url |-> url, headers |-> headers,
     body |-> body, body_type |-> body_type, form_data |-> form_data,
     url_encoded_data |-> url_encoded_data, query_params |-> query_params]

Folder(id, name, requests, folders) ==
    [id |-> id, name |-> name, requests |-> requests, folders |-> folders]

Collection(id, name, root_folder) ==
    [id |-> id, name |-> name, root_folder |-> root_folder]

Environment(name, variables) == [name |-> name, variables |-> variables]

Workspace(name, file_path, collections, environments, selected_collection, selected_folder_path, selected_request, selected_environment) ==
    [name |-> name, file_path |-> file_path, collections |-> collections,
     environments |-> environments, selected_collection |-> selected_collection,
     selected_folder_path |-> selected_folder_path,
     selected_request |-> selected_request,
     selected_environment |-> selected_environment]

\* the workspace built by Default for SendApp (and by the New Workspace dialog):
\* one empty collection, one empty environment, both selected
DefaultWorkspace(name, collection_id, root_id) ==
    Workspace(name, None,
              <<Collection(collection_id, <<"D", "C">>, Folder(root_id, T_Root, <<>>, <<>>))>>,
              <<Environment(T_Default, <<>>)>>,
              Some(0), <<>>, None, Some(0))

\* the request built by Default for SendApp
DefaultRequest(id) ==
    HttpRequest(id, T_NewRequest, "GET", T_HttpbinUrl,
                <<(<<T_ContentType, T_ApplicationJson>>)>>, <<>>, "None", <<>>, <<>>, <<>>)

\* SendApp::current_workspace
CurrentWorkspace == At(workspaces, current_workspace)

-----------------------------------------------------------------------------
(* The folder-tree addressor *)

\* the loop of get_folder_by_path: descend one index at a time, stop with None
\* at the first index that is out of range
RECURSIVE FolderLoop(_, _)
FolderLoop(current_folder, folder_path) ==
    IF folder_path = <<>> THEN Some(current_folder)
    ELSE IF Head(folder_path) < Len(current_folder.folders)
         THEN FolderLoop(At(current_folder.folders, Head(folder_path)), Tail(folder_path))
         ELSE None

\* the same loop with every index applied to the root folder's children
\* instead of the current folder's
RECURSIVE FolderLoopFromRoot(_, _, _)
FolderLoopFromRoot(root_folder, current_folder, folder_path) ==
    IF folder_path = <<>> THEN Some(current_folder)
    ELSE IF Head(folder_path) < Len(root_folder.folders)
         THEN FolderLoopFromRoot(root_folder, At(root_folder.folders, Head(folder_path)),
                                 Tail(folder_path))
         ELSE None

GetFolderFlat(collection, folder_path) ==
    FolderLoopFromRoot(collection.root_folder, collection.root_folder, folder_path)

get_folder_by_path(collection, folder_path) ==
    FolderLoop(collection.root_folder, folder_path)

\* the loop of get_folder_by_path_mut (the code repeats the loop with &mut)
RECURSIVE FolderLoopMut(_, _)
FolderLoopMut(current_folder, folder_path) ==
    IF folder_path = <<>> THEN Some(current_folder)
    ELSE IF Head(folder_path) < Len(current_folder.folders)
         THEN FolderLoopMut(At(current_folder.folders, Head(folder_path)), Tail(folder_path))
         ELSE None

\* the loop with an index that is out of range taken as the last child
RECURSIVE FolderLoopClamped(_, _)
FolderLoopClamped(current_folder, folder_path) ==
    IF folder_path = <<>> THEN Some(current_folder)
    ELSE IF Head(folder_path) < Len(current_folder.folders)
         THEN FolderLoopClamped(At(current_folder.folders, Head(folder_path)),
                                Tail(folder_path))
         ELSE IF current_folder.folders = <<>> THEN Some(current_folder)
         ELSE FolderLoopClamped(current_folder.folders[Len(current_folder.folders)],
                                Tail(folder_path))

GetFolderClamped(collection, folder_path) ==
    FolderLoopClamped(collection.root_folder, folder_path)

get_folder_by_path_mut(collection, folder_path) ==
    FolderLoopMut(collection.root_folder, folder_path)

\* a write through the &mut Folder that get_folder_by_path_mut returned for
\* folder_path: the tree with that one folder replaced
RECURSIVE WriteFolder(_, _, _)
WriteFolder(folder, folder_path, new_folder) ==
    IF folder_path = <<>> THEN new_folder
    ELSE [folder EXCEPT !.folders =
             SetAt(folder.folders, Head(folder_path),
                   WriteFolder(At(folder.folders, Head(folder_path)), Tail(folder_path),
                               new_folder))]

WriteFolderIn(collection, folder_path, new_folder) ==
    [collection EXCEPT !.root_folder = WriteFolder(collection.root_folder, folder_path, new_folder)]

-----------------------------------------------------------------------------
(* send_request: the part that runs on the UI thread *)

\* urlencoding::encode: every character except ASCII letters, digits and
\* - _ . ~ becomes its percent code (the table holds the characters in use)
PercentCode ==
    [c \in {" ", "{", "}", "/", ":", "?", "&", "=", "%"} |->
        CASE c = " " -> <<"%", "2", "0">>
          [] c = "{" -> <<"%", "7", "B">>
          [] c = "}" -> <<"%", "7", "D">>
          [] c = "/" -> <<"%", "2", "F">>
          [] c = ":" -> <<"%", "3", "A">>
          [] c = "?" -> <<"%", "3", "F">>
          [] c = "&" -> <<"%", "2", "6">>
          [] c = "=" -> <<"%", "3", "D">>
          [] c = "%" -> <<"%", "2", "5">>]

RECURSIVE Encode(_)
Encode(s) ==
    IF s = <<>> THEN <<>>
    ELSE (IF Head(s) \in DOMAIN PercentCode THEN PercentCode[Head(s)] ELSE <<Head(s)>>)
         \o Encode(Tail(s))

\* [String]::join(sep)
RECURSIVE Join(_, _)
Join(ss, sep) ==
    IF ss = <<>> THEN <<>>
    ELSE IF Len(ss) = 1 THEN Head(ss)
    ELSE Head(ss) \o sep \o Join(Tail(ss), sep)

\* the params vector of send_request: one "key=value" per query parameter
\* whose key is not blank, key and value resolved and then encoded
RECURSIVE QueryPairs(_, _)
QueryPairs(ws, query_params) ==
    IF query_params = <<>> THEN <<>>
    ELSE (IF ~IsBlank(Head(query_params)[1])
          THEN <<Encode(ResolveIn(ws, Head(query_params)[1])) \o <<"=">>
                 \o Encode(ResolveIn(ws, Head(query_params)[2]))>>
          ELSE <<>>)
         \o QueryPairs(ws, Tail(query_params))

\* resolved_url with the separator always "?"
ResolvedUrlQuestionMark(ws, request) ==
    LET url == ResolveIn(ws, request.url)
        params == QueryPairs(ws, request.query_params)
    IN IF request.query_params # <<>> /\ params # <<>>
       THEN url \o <<"?">> \o Join(params, <<"&">>)
       ELSE url

\* resolved_url of send_request
ResolvedUrl(ws, request) ==
    LET url == ResolveIn(ws, request.url)
        params == QueryPairs(ws, request.query_params)
    IN IF request.query_params # <<>> /\ params # <<>>
       THEN url \o (IF Contains(url, <<"?">>) THEN <<"&">> ELSE <<"?">>) \o Join(params, <<"&">>)
       ELSE url

\* resolved_headers with resolve_value applied to the names as well
ResolvedHeadersAndNames(ws, request) ==
    [i \in DOMAIN request.headers |->
        <<ResolveIn(ws, request.headers[i][1]), ResolveIn(ws, request.headers[i][2])>>]

\* resolved_headers of send_request: names as stored, values resolved
ResolvedHeaders(ws, request) ==
    [i \in DOMAIN request.headers |->
        <<request.headers[i][1], ResolveIn(ws, request.headers[i][2])>>]

\* mpsc::channel(): nothing queued, both ends alive
NewChannel == [queue |-> <<>>, sent |-> 0, received |-> 0, rx_alive |-> TRUE]

\* the state of the spawned async block before it has run: it owns the sender
\* tx, the request snapshot and the resolved strings
NewTask(tx, ws, request) ==
    [tx |-> tx, request |-> request,
     resolved_url |-> ResolvedUrl(ws, request),
     resolved_headers |-> ResolvedHeaders(ws, request),
     resolved_body |-> ResolveIn(ws, request.body),
     pc |-> "spawned", wire |-> None, result |-> None]

\* assigning a new receiver to response_receiver drops the one held before
DropReceiver(chs, receiver) ==
    IF IsSome(receiver)
    THEN [chs EXCEPT ![Unwrap(receiver)] = [@ EXCEPT !.rx_alive = FALSE, !.queue = <<>>]]
    ELSE chs

\* send_request with current_response = None left out
SendKeepsResponse ==
    /\ Len(tasks) < MaxSends
    /\ is_loading' = TRUE
    /\ response_receiver' = Some(Len(channels) + 1)
    /\ channels' = Append(DropReceiver(channels, response_receiver), NewChannel)
    /\ tasks' = Append(tasks, NewTask(Len(channels) + 1, CurrentWorkspace, current_request))
    /\ UNCHANGED <<workspaces, current_workspace, current_request, current_response,
                   dialogVars, disk, next_id>>

send_request ==
    /\ Len(tasks) < MaxSends
    /\ is_loading' = TRUE
    /\ current_response' = None
    /\ response_receiver' = Some(Len(channels) + 1)
    /\ channels' = Append(DropReceiver(channels, response_receiver), NewChannel)
    /\ tasks' = Append(tasks, NewTask(Len(channels) + 1, CurrentWorkspace, current_request))
    /\ UNCHANGED <<workspaces, current_workspace, current_request, dialogVars, disk, next_id>>

\* the Send button with the busy gate (&& !self.is_loading) left out
ClickSendUngated == send_request

\* the Send button of draw_request_panel: send_request runs only when the
\* button is clicked while is_loading is false
ClickSend ==
    IF is_loading THEN UNCHANGED vars ELSE send_request

-----------------------------------------------------------------------------
(* send_request: the async block that runs on the tokio runtime *)

\* a FormDataEntry; the fields a variant does not have are empty
TextEntry(key, value) ==
    [kind |-> "Text", key |-> key, value |-> value, file_path |-> <<>>, file_name |-> <<>>]
FileEntry(key, file_path, file_name) ==
    [kind |-> "File", key |-> key, value |-> <<>>, file_path |-> file_path,
     file_name |-> file_name]

\* tokio::fs::read(file_path): Some(bytes), or None when the read fails
ReadFile(fs, path) == IF path \in DOMAIN fs THEN fs[path] ELSE None

\* the match on request.method: anything but the seven verbs is sent as GET
WireMethod(method) ==
    IF method \in {"GET", "POST", "PUT", "DELETE", "PATCH", "HEAD", "OPTIONS"}
    THEN method ELSE "GET"

\* the loop that attaches the resolved headers: name and value both non-blank
RECURSIVE AttachedHeaders(_)
AttachedHeaders(resolved_headers) ==
    IF resolved_headers = <<>> THEN <<>>
    ELSE (IF ~IsBlank(Head(resolved_headers)[1]) /\ ~IsBlank(Head(resolved_headers)[2])
          THEN <<Head(resolved_headers)>> ELSE <<>>)
         \o AttachedHeaders(Tail(resolved_headers))

\* the multipart form when an unreadable file makes the whole form empty
MultipartPartsAllOrNothing(fs, form_data) ==
    LET Wanted(entry) ==
            /\ ~IsBlank(entry.key)
            /\ entry.kind = "File" => ~IsBlank(entry.file_path)
        wanted == SelectSeq(form_data, Wanted)
        Unreadable(entry) == entry.kind = "File" /\ ~IsSome(ReadFile(fs, entry.file_path))
    IN IF \E i \in DOMAIN wanted : Unreadable(wanted[i])
       THEN <<>>
       ELSE [i \in DOMAIN wanted |->
                IF wanted[i].kind = "Text"
                THEN [kind |-> "text", name |-> wanted[i].key, text |-> wanted[i].value,
                      file_name |-> <<>>, bytes |-> None]
                ELSE [kind |-> "file", name |-> wanted[i].key, text |-> <<>>,
                      file_name |-> wanted[i].file_name,
                      bytes |-> ReadFile(fs, wanted[i].file_path)]]

\* the loop over request.form_data: a text part per text entry with a
\* non-blank key, a file part per file entry with non-blank key and path whose
\* file can be read; an unreadable file is skipped
RECURSIVE MultipartParts(_, _)
MultipartParts(fs, form_data) ==
    IF form_data = <<>> THEN <<>>
    ELSE LET entry == Head(form_data)
             part ==
                 IF entry.kind = "Text"
                 THEN IF ~IsBlank(entry.key)
                      THEN <<[kind |-> "text", name |-> entry.key, text |-> entry.value,
                              file_name |-> <<>>, bytes |-> None]>>
                      ELSE <<>>
                 ELSE IF ~IsBlank(entry.key) /\ ~IsBlank(entry.file_path)
                      THEN IF IsSome(ReadFile(fs, entry.file_path))
                           THEN <<[kind |-> "file", name |-> entry.key, text |-> <<>>,
                                   file_name |-> entry.file_name,
                                   bytes |-> ReadFile(fs, entry.file_path)]>>
                           ELSE <<>>
                      ELSE <<>>
         IN part \o MultipartParts(fs, Tail(form_data))

\* the loop over request.url_encoded_data: the pairs with a non-blank key
RECURSIVE FormParams(_)
FormParams(url_encoded_data) ==
    IF url_encoded_data = <<>> THEN <<>>
    ELSE (IF ~IsBlank(Head(url_encoded_data)[1]) THEN <<Head(url_encoded_data)>> ELSE <<>>)
         \o FormParams(Tail(url_encoded_data))

NoBody == [kind |-> "none", text |-> <<>>, parts |-> <<>>, params |-> <<>>]

\* the task reading the editor's request and the active environment when it
\* builds, instead of the values moved into it at the click
BuildWireFromEditor(fs, task) ==
    LET request == current_request
        live == NewTask(task.tx, CurrentWorkspace, current_request)
    IN IF request.body_type = "FormData" /\ request.form_data # <<>>
       THEN [method |-> WireMethod(request.method), url |-> live.resolved_url,
             headers |-> <<>>,
             body |-> [NoBody EXCEPT !.kind = "multipart",
                                     !.parts = MultipartParts(fs, request.form_data)]]
       ELSE IF request.body_type = "UrlEncoded" /\ request.url_encoded_data # <<>>
       THEN [method |-> WireMethod(request.method), url |-> live.resolved_url,
             headers |-> AttachedHeaders(live.resolved_headers),
             body |-> [NoBody EXCEPT !.kind = "form",
                                     !.params = FormParams(request.url_encoded_data)]]
       ELSE [method |-> WireMethod(request.method), url |-> live.resolved_url,
             headers |-> AttachedHeaders(live.resolved_headers),
             body |-> IF ~IsBlank(live.resolved_body)
                      THEN [NoBody EXCEPT !.kind = "text", !.text = live.resolved_body]
                      ELSE NoBody]

\* the request the task hands to reqwest: the match on request.body_type
BuildWire(fs, task) ==
    LET request == task.request
    IN IF request.body_type = "FormData" /\ request.form_data # <<>>
       THEN [method |-> WireMethod(request.method), url |-> task.resolved_url,
             headers |-> <<>>,
             body |-> [NoBody EXCEPT !.kind = "multipart",
                                     !.parts = MultipartParts(fs, request.form_data)]]
       ELSE IF request.body_type = "UrlEncoded" /\ request.url_encoded_data # <<>>
       THEN [method |-> WireMethod(request.method), url |-> task.resolved_url,
             headers |-> AttachedHeaders(task.resolved_headers),
             body |-> [NoBody EXCEPT !.kind = "form",
                                     !.params = FormParams(request.url_encoded_data)]]
       ELSE [method |-> WireMethod(request.method), url |-> task.resolved_url,
             headers |-> AttachedHeaders(task.resolved_headers),
             body |-> IF ~IsBlank(task.resolved_body)
                      THEN [NoBody EXCEPT !.kind = "text", !.text = task.resolved_body]
                      ELSE NoBody]

\* Result<HttpResponse, String>
Ok(response) == [ok |-> Some(response), err |-> None]
Err(error) == [ok |-> None, err |-> Some(error)]

T_Unknown == <<"U", "n", "k", "n", "o", "w", "n">>
T_Error == <<"E", "r", "r", "o", "r">>
T_RequestFailed ==
    <<"R", "e", "q", "u", "e", "s", "t", " ", "f", "a", "i", "l", "e", "d", ":", " ">>
T_ErrorReadingBody ==
    <<"E", "r", "r", "o", "r", " ", "r", "e", "a", "d", "i", "n", "g", " ", "b", "o", "d", "y",
      ":", " ">>

\* the HashMap filled from response.headers(): a later header of the same
\* name overwrites the earlier one
HeaderMap(header_list) ==
    [name \in {header_list[i][1] : i \in DOMAIN header_list} |->
        LET last == CHOOSE i \in DOMAIN header_list :
                        /\ header_list[i][1] = name
                        /\ \A j \in DOMAIN header_list : header_list[j][1] = name => j <= i
        IN header_list[last][2]]

\* headers_size: name, value and 4 more bytes per header line
RECURSIVE HeadersSize(_)
HeadersSize(header_list) ==
    IF header_list = <<>> THEN 0
    ELSE Len(Head(header_list)[1]) + Len(Head(header_list)[2]) + 4
         + HeadersSize(Tail(header_list))

\* the Ok arm of the match on req_builder.send().await.  raw is what the server
\* answered: status, canonical reason (if the status has one), header lines,
\* body text (None when it cannot be decoded, decode_error says why)
ShapeResponse(raw, elapsed) ==
    LET body == IF IsSome(raw.body) THEN Unwrap(raw.body)
                ELSE T_ErrorReadingBody \o raw.decode_error
    IN [status |-> raw.status,
        status_text |-> IF IsSome(raw.reason) THEN Unwrap(raw.reason) ELSE T_Unknown,
        headers |-> HeaderMap(raw.headers),
        body |-> body,
        time |-> elapsed,
        body_size |-> Len(body),
        headers_size |-> HeadersSize(raw.headers)]

\* tx.send(result): the result is queued unless the receiver is gone
SendOn(chs, tx, result) ==
    [chs EXCEPT ![tx] = [@ EXCEPT !.sent = @ + 1,
                                  !.queue = IF chs[tx].rx_alive THEN Append(@, result) ELSE @]]

\* the task builds its request (method, body by body_type, headers)
TaskBuild(n) ==
    /\ n \in DOMAIN tasks
    /\ tasks[n].pc = "spawned"
    /\ tasks' = [tasks EXCEPT ![n] = [@ EXCEPT !.pc = "built",
                                                !.wire = Some(BuildWire(disk, tasks[n]))]]
    /\ UNCHANGED <<workspaces, current_workspace, current_request, current_response,
                   is_loading, response_receiver, channels, dialogVars, disk, next_id>>

\* what servers answer in the model
T_ok == <<"o", "k">>
T_OK == <<"O", "K">>
T_text == <<"t", "e", "x", "t">>
T_json == <<"j", "s", "o", "n">>
T_ct == <<"c", "t">>
ServerResponses ==
    { [status |-> 200, reason |-> Some(T_OK),
       headers |-> << <<T_ct, T_text>>, <<T_ct, T_json>> >>,
       body |-> Some(T_ok), decode_error |-> <<>>],
      [status |-> 599, reason |-> None, headers |-> <<>>,
       body |-> None, decode_error |-> <<"u", "t", "f", "8">>] }
ElapsedMs == {3}
TransportErrors == {<<"d", "n", "s">>, <<"t", "i", "m", "e", "o", "u", "t">>}

\* send() succeeded: the response is shaped and sent on tx
TaskTransportOk(n) ==
    /\ n \in DOMAIN tasks
    /\ tasks[n].pc = "built"
    /\ \E raw \in ServerResponses, elapsed \in ElapsedMs :
          LET result == Ok(ShapeResponse(raw, elapsed))
          IN /\ tasks' = [tasks EXCEPT ![n] = [@ EXCEPT !.pc = "done", !.result = Some(result)]]
             /\ channels' = SendOn(channels, tasks[n].tx, result)
    /\ UNCHANGED <<workspaces, current_workspace, current_request, current_response,
                   is_loading, response_receiver, dialogVars, disk, next_id>>

\* send() failed and the task returns from the Err arm without sending
TaskTransportErrSilent(n) ==
    /\ n \in DOMAIN tasks
    /\ tasks[n].pc = "built"
    /\ \E e \in TransportErrors :
          tasks' = [tasks EXCEPT ![n] = [@ EXCEPT !.pc = "done",
                                                  !.result = Some(Err(T_RequestFailed \o e))]]
    /\ UNCHANGED <<workspaces, current_workspace, current_request, current_response,
                   is_loading, response_receiver, channels, dialogVars, disk, next_id>>

\* send() failed: Err("Request failed: {e}") is sent on tx
TaskTransportErr(n) ==
    /\ n \in DOMAIN tasks
    /\ tasks[n].pc = "built"
    /\ \E e \in TransportErrors :
          LET result == Err(T_RequestFailed \o e)
          IN /\ tasks' = [tasks EXCEPT ![n] = [@ EXCEPT !.pc = "done", !.result = Some(result)]]
             /\ channels' = SendOn(channels, tasks[n].tx, result)
    /\ UNCHANGED <<workspaces, current_workspace, current_request, current_response,
                   is_loading, response_receiver, dialogVars, disk, next_id>>

-----------------------------------------------------------------------------
(* update: the poll of the completion channel at the start of every frame *)

EmptyHeaders == [name \in {} |-> <<>>]

\* the response built in the Err arm with body_size left at 0
ErrorResponseNoSize(error) ==
    [status |-> 0, status_text |-> T_Error, headers |-> EmptyHeaders, body |-> error,
     time |-> 0, body_size |-> 0, headers_size |-> 0]

\* the HttpResponse built in the Err arm of update
ErrorResponse(error) ==
    [status |-> 0, status_text |-> T_Error, headers |-> EmptyHeaders, body |-> error,
     time |-> 0, body_size |-> Len(error), headers_size |-> 0]

\* receiver.try_recv() returns Ok: a receiver is held and a result is queued
CanReceive ==
    /\ IsSome(response_receiver)
    /\ channels[Unwrap(response_receiver)].queue # <<>>

\* the channel after try_recv took the head and the receiver was dropped
Received(chs, rx) ==
    [chs EXCEPT ![rx] = [@ EXCEPT !.queue = <<>>, !.received = @ + 1, !.rx_alive = FALSE]]

\* update with is_loading = false left out of the Err arm
UpdateKeepsLoadingOnError ==
    IF CanReceive
    THEN LET rx == Unwrap(response_receiver)
             result == Head(channels[rx].queue)
         IN /\ IF IsSome(result.ok)
               THEN /\ current_response' = result.ok
                    /\ is_loading' = FALSE
               ELSE /\ current_response' = Some(ErrorResponse(Unwrap(result.err)))
                    /\ UNCHANGED is_loading
            /\ response_receiver' = None
            /\ channels' = Received(channels, rx)
            /\ UNCHANGED <<workspaces, current_workspace, current_request, tasks,
                           dialogVars, disk, next_id>>
    ELSE UNCHANGED vars

\* update with response_receiver = None left out: the receiver stays held
UpdateKeepsReceiver ==
    IF CanReceive
    THEN LET rx == Unwrap(response_receiver)
             result == Head(channels[rx].queue)
         IN /\ IF IsSome(result.ok)
               THEN current_response' = result.ok
               ELSE current_response' = Some(ErrorResponse(Unwrap(result.err)))
            /\ is_loading' = FALSE
            /\ channels' = [channels EXCEPT ![rx] = [@ EXCEPT !.queue = Tail(@),
                                                              !.received = @ + 1]]
            /\ UNCHANGED <<workspaces, current_workspace, current_request, tasks,
                           response_receiver, dialogVars, disk, next_id>>
    ELSE UNCHANGED vars

update ==
    IF CanReceive
    THEN LET rx == Unwrap(response_receiver)
             result == Head(channels[rx].queue)
         IN /\ IF IsSome(result.ok)
               THEN current_response' = result.ok
               ELSE current_response' = Some(ErrorResponse(Unwrap(result.err)))
            /\ is_loading' = FALSE
            /\ response_receiver' = None
            /\ channels' = Received(channels, rx)
            /\ UNCHANGED <<workspaces, current_workspace, current_request, tasks,
                           dialogVars, disk, next_id>>
    ELSE UNCHANGED vars

-----------------------------------------------------------------------------
(* The workspace store: files, auto-save and the write paths through the cursor *)

\* what a file holds.  serde_json reads an AppStorage only from a document
\* with collections and environments, a Collection only from a document with
\* id, name and root_folder; anything else fails to parse
StorageFile(collections, environments) ==
    [format |-> "AppStorage", collections |-> collections, environments |-> environments]
CollectionFile(collection) ==
    [format |-> "Collection", collections |-> <<collection>>, environments |-> <<>>]
GarbageFile == [format |-> "text", collections |-> <<>>, environments |-> <<>>]

\* the paths std::fs::write fails on: a file the user may read but not write
P_locked == <<"l", ".", "j">>
ReadOnlyPaths == {P_locked}

\* std::fs::write(path, json) answers Ok
WriteOk(fs, path) == path \notin ReadOnlyPaths

\* std::fs::write(path, json): a failed write leaves the file as it was
WriteFile(fs, path, content) ==
    IF WriteOk(fs, path)
    THEN [p \in DOMAIN fs \cup {path} |-> IF p = path THEN Some(content) ELSE fs[p]]
    ELSE fs

\* auto_save_workspace leaving the environments out of the file
AutoSaveCollectionsOnly(fs, workspace) ==
    IF IsSome(workspace.file_path)
    THEN WriteFile(fs, Unwrap(workspace.file_path), StorageFile(workspace.collections, <<>>))
    ELSE fs

\* auto_save_workspace for workspace: nothing is written without a file_path
AutoSave(fs, workspace) ==
    IF IsSome(workspace.file_path)
    THEN WriteFile(fs, Unwrap(workspace.file_path),
                   StorageFile(workspace.collections, workspace.environments))
    ELSE fs

\* the outcome of a write path: the workspaces after it, and whether it got as
\* far as its write (and its auto_save_workspace call)
Outcome(wss, written) == [workspaces |-> wss, written |-> written]

\* wss with the folder at folder_path of collection collection_idx of the
\* current workspace replaced
WithFolder(wss, cw, collection_idx, folder_path, new_folder) ==
    LET ws == At(wss, cw)
    IN SetAt(wss, cw,
             [ws EXCEPT !.collections =
                 SetAt(ws.collections, collection_idx,
                       WriteFolderIn(At(ws.collections, collection_idx), folder_path,
                                     new_folder))])

\* the body of save_current_request once the cursor has been copied into
\* collection_idx, request_idx and folder_path
SaveRequestAt(wss, cw, collection_idx, request_idx, folder_path, request) ==
    LET ws == At(wss, cw)
    IN IF IsSome(collection_idx) /\ IsSome(request_idx)
       THEN IF Unwrap(collection_idx) < Len(ws.collections)
            THEN LET folder == get_folder_by_path_mut(
                                   At(ws.collections, Unwrap(collection_idx)), folder_path)
                 IN IF IsSome(folder)
                    THEN IF Unwrap(request_idx) < Len(Unwrap(folder).requests)
                         THEN Outcome(
                                  WithFolder(wss, cw, Unwrap(collection_idx), folder_path,
                                      [Unwrap(folder) EXCEPT !.requests =
                                          SetAt(@, Unwrap(request_idx), request)]),
                                  TRUE)
                         ELSE Outcome(wss, FALSE)
                    ELSE Outcome(wss, FALSE)
            ELSE Outcome(wss, FALSE)
       ELSE Outcome(wss, FALSE)

\* save_current_request writing over the first request of the folder
SaveOverFirstRequest(request) ==
    SaveRequestAt(workspaces, current_workspace,
                  CurrentWorkspace.selected_collection,
                  IF IsSome(CurrentWorkspace.selected_request) THEN Some(0) ELSE None,
                  CurrentWorkspace.selected_folder_path, request)

\* save_current_request, called with the request as the edit left it
save_current_request(request) ==
    SaveRequestAt(workspaces, current_workspace,
                  CurrentWorkspace.selected_collection,
                  CurrentWorkspace.selected_request,
                  CurrentWorkspace.selected_folder_path, request)

\* New Folder putting the new folder before the existing subfolders
NewFolderFirst(wss, cw, collection_idx, folder_path, folder_name, id) ==
    LET ws == At(wss, cw)
    IN IF IsSome(collection_idx)
       THEN IF Unwrap(collection_idx) < Len(ws.collections)
            THEN LET folder == get_folder_by_path_mut(
                                   At(ws.collections, Unwrap(collection_idx)), folder_path)
                 IN IF IsSome(folder)
                    THEN Outcome(
                             WithFolder(wss, cw, Unwrap(collection_idx), folder_path,
                                 [Unwrap(folder) EXCEPT !.folders =
                                     <<Folder(id, folder_name, <<>>, <<>>)>> \o @]),
                             TRUE)
                    ELSE Outcome(wss, FALSE)
            ELSE Outcome(wss, FALSE)
       ELSE Outcome(wss, FALSE)

\* the Create button of the New Folder dialog once the name was found
\* non-blank and the cursor has been copied
NewFolderAt(wss, cw, collection_idx, folder_path, folder_name, id) ==
    LET ws == At(wss, cw)
    IN IF IsSome(collection_idx)
       THEN IF Unwrap(collection_idx) < Len(ws.collections)
            THEN LET folder == get_folder_by_path_mut(
                                   At(ws.collections, Unwrap(collection_idx)), folder_path)
                 IN IF IsSome(folder)
                    THEN Outcome(
                             WithFolder(wss, cw, Unwrap(collection_idx), folder_path,
                                 [Unwrap(folder) EXCEPT !.folders =
                                     Push(@, Folder(id, folder_name, <<>>, <<>>))]),
                             TRUE)
                    ELSE Outcome(wss, FALSE)
            ELSE Outcome(wss, FALSE)
       ELSE Outcome(wss, FALSE)

\* the Create button of the New Request dialog once the name was found
\* non-blank and the cursor has been copied
NewRequestAt(wss, cw, collection_idx, folder_path, request_name, id, request) ==
    LET ws == At(wss, cw)
    IN IF IsSome(collection_idx)
       THEN IF Unwrap(collection_idx) < Len(ws.collections)
            THEN LET folder == get_folder_by_path_mut(
                                   At(ws.collections, Unwrap(collection_idx)), folder_path)
                 IN IF IsSome(folder)
                    THEN Outcome(
                             WithFolder(wss, cw, Unwrap(collection_idx), folder_path,
                                 [Unwrap(folder) EXCEPT !.requests =
                                     Push(@, [request EXCEPT !.id = id,
                                                             !.name = request_name])]),
                             TRUE)
                    ELSE Outcome(wss, FALSE)
            ELSE Outcome(wss, FALSE)
       ELSE Outcome(wss, FALSE)

\* what a write path leaves on disk: auto_save_workspace runs only after a write
AfterOutcome(fs, outcome, cw) ==
    IF outcome.written THEN AutoSave(fs, At(outcome.workspaces, cw)) ELSE fs

\* the URL field of draw_request_panel: the edit, then save_current_request
EditUrl(url) ==
    /\ url # current_request.url
    /\ LET request == [current_request EXCEPT !.url = url]
           outcome == save_current_request(request)
       IN /\ current_request' = request
          /\ workspaces' = outcome.workspaces
          /\ disk' = AfterOutcome(disk, outcome, current_workspace)
    /\ UNCHANGED <<current_workspace, bridgeVars, dialogVars, next_id>>

\* File > New Folder, File > New Request
MenuNewFolder ==
    /\ new_folder_dialog' = TRUE
    /\ UNCHANGED <<workspaces, current_workspace, current_request, bridgeVars,
                   workspaceDialogVars, collectionDialogVars, environmentDialogVars,
                   new_request_dialog, new_request_name, new_folder_name, disk, next_id>>

MenuNewRequest ==
    /\ new_request_dialog' = TRUE
    /\ UNCHANGED <<workspaces, current_workspace, current_request, bridgeVars,
                   workspaceDialogVars, collectionDialogVars, environmentDialogVars,
                   new_folder_dialog, new_folder_name, new_request_name, disk, next_id>>

\* the name fields of the two dialogs
TypeFolderName(name) ==
    /\ new_folder_dialog
    /\ new_folder_name' = name
    /\ UNCHANGED <<workspaces, current_workspace, current_request, bridgeVars,
                   workspaceDialogVars, collectionDialogVars, environmentDialogVars,
                   new_request_dialog, new_request_name, new_folder_dialog, disk, next_id>>

TypeRequestName(name) ==
    /\ new_request_dialog
    /\ new_request_name' = name
    /\ UNCHANGED <<workspaces, current_workspace, current_request, bridgeVars,
                   workspaceDialogVars, collectionDialogVars, environmentDialogVars,
                   new_folder_dialog, new_folder_name, new_request_dialog, disk, next_id>>

\* the first id the dialogs hand out (Default for SendApp used the ones below)
FirstId == 4
CanCreate == next_id < FirstId + MaxCreated

\* Create of the New Folder dialog
CreateFolder ==
    /\ new_folder_dialog
    /\ CanCreate
    /\ IF ~IsBlank(new_folder_name)
       THEN LET outcome == NewFolderAt(workspaces, current_workspace,
                                       CurrentWorkspace.selected_collection,
                                       CurrentWorkspace.selected_folder_path,
                                       new_folder_name, next_id)
            IN IF outcome.written
               THEN /\ workspaces' = outcome.workspaces
                    /\ new_folder_name' = <<>>
                    /\ new_folder_dialog' = FALSE
                    /\ disk' = AfterOutcome(disk, outcome, current_workspace)
                    /\ next_id' = next_id + 1
               ELSE UNCHANGED <<workspaces, new_folder_name, new_folder_dialog, disk, next_id>>
       ELSE UNCHANGED <<workspaces, new_folder_name, new_folder_dialog, disk, next_id>>
    /\ UNCHANGED <<current_workspace, current_request, bridgeVars,
                   workspaceDialogVars, collectionDialogVars, environmentDialogVars,
                   new_request_dialog, new_request_name>>

\* Cancel of the New Folder dialog
CancelFolder ==
    /\ new_folder_dialog
    /\ new_folder_name' = <<>>
    /\ new_folder_dialog' = FALSE
    /\ UNCHANGED <<workspaces, current_workspace, current_request, bridgeVars,
                   workspaceDialogVars, collectionDialogVars, environmentDialogVars,
                   new_request_dialog, new_request_name, disk, next_id>>

\* Create of the New Request dialog
CreateRequest ==
    /\ new_request_dialog
    /\ CanCreate
    /\ IF ~IsBlank(new_request_name)
       THEN LET outcome == NewRequestAt(workspaces, current_workspace,
                                        CurrentWorkspace.selected_collection,
                                        CurrentWorkspace.selected_folder_path,
                                        new_request_name, next_id, current_request)
            IN IF outcome.written
               THEN /\ workspaces' = outcome.workspaces
                    /\ new_request_name' = <<>>
                    /\ new_request_dialog' = FALSE
                    /\ disk' = AfterOutcome(disk, outcome, current_workspace)
                    /\ next_id' = next_id + 1
               ELSE UNCHANGED <<workspaces, new_request_name, new_request_dialog, disk, next_id>>
       ELSE UNCHANGED <<workspaces, new_request_name, new_request_dialog, disk, next_id>>
    /\ UNCHANGED <<current_workspace, current_request, bridgeVars,
                   workspaceDialogVars, collectionDialogVars, environmentDialogVars,
                   new_folder_dialog, new_folder_name>>

\* Cancel of the New Request dialog
CancelRequest ==
    /\ new_request_dialog
    /\ new_request_name' = <<>>
    /\ new_request_dialog' = FALSE
    /\ UNCHANGED <<workspaces, current_workspace, current_request, bridgeVars,
                   workspaceDialogVars, collectionDialogVars, environmentDialogVars,
                   new_folder_dialog, new_folder_name, disk, next_id>>

\* File > New Collection
MenuNewCollection ==
    /\ new_collection_dialog' = TRUE
    /\ UNCHANGED <<workspaces, current_workspace, current_request, bridgeVars, workspaceDialogVars,
                   new_request_dialog, new_request_name, new_folder_dialog, new_folder_name,
                   new_collection_name, environmentDialogVars, disk, next_id>>

\* the name field of the New Collection dialog
TypeCollectionName(name) ==
    /\ new_collection_dialog
    /\ new_collection_name' = name
    /\ UNCHANGED <<workspaces, current_workspace, current_request, bridgeVars, workspaceDialogVars,
                   new_request_dialog, new_request_name, new_folder_dialog, new_folder_name,
                   new_collection_dialog, environmentDialogVars, disk, next_id>>

\* Create of the New Collection dialog: a collection with an empty root
\* folder is pushed onto the current workspace; two ids are generated
CreateCollection ==
    /\ new_collection_dialog
    /\ CanCreate
    /\ Len(CurrentWorkspace.collections) < MaxCollections
    /\ IF ~IsBlank(new_collection_name)
       THEN LET pushed == SetAt(workspaces, current_workspace,
                              [CurrentWorkspace EXCEPT !.collections =
                                  Push(@, Collection(next_id, new_collection_name,
                                          Folder(next_id + 1, T_Root, <<>>, <<>>)))])
            IN /\ workspaces' = pushed
               /\ new_collection_name' = <<>>
               /\ new_collection_dialog' = FALSE
               /\ disk' = AutoSave(disk, At(pushed, current_workspace))
               /\ next_id' = next_id + 2
       ELSE UNCHANGED <<workspaces, new_collection_name, new_collection_dialog, disk, next_id>>
    /\ UNCHANGED <<current_workspace, current_request, bridgeVars, workspaceDialogVars,
                   new_request_dialog, new_request_name, new_folder_dialog, new_folder_name,
                   environmentDialogVars>>

\* Cancel of the New Collection dialog
CancelCollection ==
    /\ new_collection_dialog
    /\ new_collection_name' = <<>>
    /\ new_collection_dialog' = FALSE
    /\ UNCHANGED <<workspaces, current_workspace, current_request, bridgeVars, workspaceDialogVars,
                   new_request_dialog, new_request_name, new_folder_dialog, new_folder_name,
                   environmentDialogVars, disk, next_id>>

\* File > New Environment, and the New Environment button of the panel
MenuNewEnvironment ==
    /\ new_environment_dialog' = TRUE
    /\ UNCHANGED <<workspaces, current_workspace, current_request, bridgeVars, workspaceDialogVars,
                   new_request_dialog, new_request_name, new_folder_dialog, new_folder_name,
                   collectionDialogVars, new_environment_name, disk, next_id>>

\* the name field of the New Environment dialog
TypeEnvironmentName(name) ==
    /\ new_environment_dialog
    /\ new_environment_name' = name
    /\ UNCHANGED <<workspaces, current_workspace, current_request, bridgeVars, workspaceDialogVars,
                   new_request_dialog, new_request_name, new_folder_dialog, new_folder_name,
                   collectionDialogVars, new_environment_dialog, disk, next_id>>

\* Create of the New Environment dialog: an environment without variables is
\* pushed onto the current workspace and selected
CreateEnvironment ==
    /\ new_environment_dialog
    /\ Len(CurrentWorkspace.environments) < MaxEnvironments
    /\ IF ~IsBlank(new_environment_name)
       THEN LET pushed == SetAt(workspaces, current_workspace,
                              [CurrentWorkspace EXCEPT
                                  !.environments =
                                      Push(@, Environment(new_environment_name, <<>>)),
                                  !.selected_environment =
                                      Some(Len(CurrentWorkspace.environments))])
            IN /\ workspaces' = pushed
               /\ new_environment_name' = <<>>
               /\ new_environment_dialog' = FALSE
               /\ disk' = AutoSave(disk, At(pushed, current_workspace))
       ELSE UNCHANGED <<workspaces, new_environment_name, new_environment_dialog, disk>>
    /\ UNCHANGED <<current_workspace, current_request, bridgeVars, workspaceDialogVars,
                   new_request_dialog, new_request_name, new_folder_dialog, new_folder_name,
                   collectionDialogVars, next_id>>

\* Cancel of the New Environment dialog
CancelEnvironment ==
    /\ new_environment_dialog
    /\ new_environment_name' = <<>>
    /\ new_environment_dialog' = FALSE
    /\ UNCHANGED <<workspaces, current_workspace, current_request, bridgeVars, workspaceDialogVars,
                   new_request_dialog, new_request_name, new_folder_dialog, new_folder_name,
                   collectionDialogVars, disk, next_id>>

\* draw_environment_panel shows the variables of the selected environment
\* when its index is in range
VariablesShown ==
    /\ IsSome(CurrentWorkspace.selected_environment)
    /\ Unwrap(CurrentWorkspace.selected_environment) < Len(CurrentWorkspace.environments)

ShownVariables ==
    IF VariablesShown
    THEN At(CurrentWorkspace.environments,
            Unwrap(CurrentWorkspace.selected_environment)).variables
    ELSE <<>>

\* the Active Environment combo box: No Environment, or one of the
\* environments of the current workspace
SelectEnvironment(selection) ==
    /\ selection \in {None} \cup {Some(idx) : idx \in Indices(CurrentWorkspace.environments)}
    /\ workspaces' = SetAt(workspaces, current_workspace,
                           [CurrentWorkspace EXCEPT !.selected_environment = selection])
    /\ UNCHANGED <<current_workspace, current_request, bridgeVars, dialogVars, disk, next_id>>

\* str::trim: the text without its leading and trailing whitespace
RECURSIVE TrimStart(_)
TrimStart(s) ==
    IF s # <<>> /\ Head(s) \in Whitespace THEN TrimStart(Tail(s)) ELSE s

RECURSIVE TrimEnd(_)
TrimEnd(s) ==
    IF s # <<>> /\ s[Len(s)] \in Whitespace THEN TrimEnd(SubSeq(s, 1, Len(s) - 1)) ELSE s

Trim(s) == TrimEnd(TrimStart(s))

\* duplicate_keys flagging only the later of two variables with one name
DuplicateKeysLaterOnly(variables) ==
    [i \in DOMAIN variables |->
        /\ Trim(variables[i][1]) # <<>>
        /\ Cardinality({idx \in DOMAIN variables :
                            idx < i /\ Trim(variables[idx][1]) = Trim(variables[i][1])}) > 0]

\* duplicate_keys of draw_environment_panel: one flag per variable, set when
\* the trimmed key is not empty and the filter over the other variables with
\* the same trimmed key counts more than none
DuplicateKeys(variables) ==
    [i \in DOMAIN variables |->
        /\ Trim(variables[i][1]) # <<>>
        /\ Cardinality({idx \in DOMAIN variables :
                            idx # i /\ Trim(variables[idx][1]) = Trim(variables[i][1])}) > 0]

\* the end of draw_environment_panel after a change of the variables:
\* env_changed is set, so auto_save_workspace runs
StoreVariables(variables) ==
    LET env_idx == Unwrap(CurrentWorkspace.selected_environment)
        changed == SetAt(workspaces, current_workspace,
                         [CurrentWorkspace EXCEPT !.environments =
                             SetAt(@, env_idx, [At(@, env_idx) EXCEPT !.variables = variables])])
    IN /\ workspaces' = changed
       /\ disk' = AutoSave(disk, At(changed, current_workspace))
       /\ UNCHANGED <<current_workspace, current_request, bridgeVars, dialogVars, next_id>>

\* the Add Variable button
AddVariable ==
    /\ VariablesShown
    /\ Len(ShownVariables) < MaxVariables
    /\ StoreVariables(Push(ShownVariables, <<<<>>, <<>>>>))

\* an edit of the key field of variable i
EditVariableKey(i, key) ==
    /\ VariablesShown
    /\ i \in Indices(ShownVariables)
    /\ key # At(ShownVariables, i)[1]
    /\ StoreVariables(SetAt(ShownVariables, i, <<key, At(ShownVariables, i)[2]>>))

\* an edit of the value field of variable i
EditVariableValue(i, value) ==
    /\ VariablesShown
    /\ i \in Indices(ShownVariables)
    /\ value # At(ShownVariables, i)[2]
    /\ StoreVariables(SetAt(ShownVariables, i, <<At(ShownVariables, i)[1], value>>))

\* the remove button of variable i
RemoveVariable(i) ==
    /\ VariablesShown
    /\ i \in Indices(ShownVariables)
    /\ StoreVariables([j \in 1 .. (Len(ShownVariables) - 1) |->
                          IF j <= i THEN ShownVariables[j] ELSE ShownVariables[j + 1]])

-----------------------------------------------------------------------------
(* The workspace tabs, the collections panel and the File menu *)

\* File > New Workspace
MenuNewWorkspace ==
    /\ new_workspace_dialog' = TRUE
    /\ UNCHANGED <<workspaces, current_workspace, current_request, bridgeVars,
                   new_request_dialog, new_request_name, new_folder_dialog, new_folder_name,
                   collectionDialogVars, environmentDialogVars, new_workspace_name,
                   disk, next_id>>

\* the name field of the New Workspace dialog
TypeWorkspaceName(name) ==
    /\ new_workspace_dialog
    /\ new_workspace_name' = name
    /\ UNCHANGED <<workspaces, current_workspace, current_request, bridgeVars,
                   new_request_dialog, new_request_name, new_folder_dialog, new_folder_name,
                   collectionDialogVars, environmentDialogVars, new_workspace_dialog,
                   disk, next_id>>

\* Create of the New Workspace dialog: a workspace with one empty collection
\* and one empty environment, both selected, is pushed and becomes the
\* current one; two ids are generated and nothing is written to disk
CreateWorkspace ==
    /\ new_workspace_dialog
    /\ CanCreate
    /\ Len(workspaces) < MaxWorkspaces
    /\ IF ~IsBlank(new_workspace_name)
       THEN /\ workspaces' = Push(workspaces,
                                  DefaultWorkspace(new_workspace_name, next_id, next_id + 1))
            /\ current_workspace' = Len(workspaces)
            /\ new_workspace_name' = <<>>
            /\ new_workspace_dialog' = FALSE
            /\ next_id' = next_id + 2
       ELSE UNCHANGED <<workspaces, current_workspace, workspaceDialogVars, next_id>>
    /\ UNCHANGED <<current_request, bridgeVars,
                   new_request_dialog, new_request_name, new_folder_dialog, new_folder_name,
                   collectionDialogVars, environmentDialogVars, disk>>

\* Cancel of the New Workspace dialog
CancelWorkspace ==
    /\ new_workspace_dialog
    /\ new_workspace_name' = <<>>
    /\ new_workspace_dialog' = FALSE
    /\ UNCHANGED <<workspaces, current_workspace, current_request, bridgeVars,
                   new_request_dialog, new_request_name, new_folder_dialog, new_folder_name,
                   collectionDialogVars, environmentDialogVars, disk, next_id>>

\* a workspace tab
SwitchWorkspace(idx) ==
    /\ idx \in Indices(workspaces)
    /\ current_workspace' = idx
    /\ UNCHANGED <<workspaces, current_request, bridgeVars, dialogVars, disk, next_id>>

\* draw_folder_contents: the folder labels it draws, by their paths.  A
\* subfolder's contents are drawn only when the cursor names that subfolder
RECURSIVE DrawnFolders(_, _, _)
DrawnFolders(folder, current_path, selected_folder_path) ==
    UNION { LET subfolder_path == Push(current_path, folder_idx)
            IN {subfolder_path}
               \cup (IF selected_folder_path = subfolder_path
                     THEN DrawnFolders(At(folder.folders, folder_idx), subfolder_path,
                                       selected_folder_path)
                     ELSE {})
          : folder_idx \in Indices(folder.folders) }

\* draw_folder_contents: the request labels it draws, as (index, request)
RECURSIVE DrawnRequests(_, _, _)
DrawnRequests(folder, current_path, selected_folder_path) ==
    UNION { LET subfolder_path == Push(current_path, folder_idx)
            IN IF selected_folder_path = subfolder_path
               THEN DrawnRequests(At(folder.folders, folder_idx), subfolder_path,
                                  selected_folder_path)
               ELSE {}
          : folder_idx \in Indices(folder.folders) }
    \cup (IF selected_folder_path = current_path
          THEN {<<request_idx, At(folder.requests, request_idx)>> :
                    request_idx \in Indices(folder.requests)}
          ELSE {})

\* the collection whose contents the panel draws: the selected one, if it exists
DrawnCollection ==
    LET ws == CurrentWorkspace
    IN IF IsSome(ws.selected_collection)
          /\ Unwrap(ws.selected_collection) < Len(ws.collections)
       THEN Some(At(ws.collections, Unwrap(ws.selected_collection)))
       ELSE None

\* the end of draw_collections_panel without the reset of selected_request
\* on a click that chose no request
StoreSelectionKeepsRequest(selected_collection, selected_folder_path, selected_request, new_current_request) ==
    LET ws == CurrentWorkspace
        ws1 == IF IsSome(selected_collection)
               THEN [ws EXCEPT
                        !.selected_collection = selected_collection,
                        !.selected_folder_path =
                            IF IsSome(selected_folder_path)
                            THEN Unwrap(selected_folder_path) ELSE @]
               ELSE ws
        ws2 == IF IsSome(selected_request)
               THEN [ws1 EXCEPT !.selected_request = selected_request]
               ELSE ws1
    IN /\ workspaces' = SetAt(workspaces, current_workspace, ws2)
       /\ current_request' = IF IsSome(new_current_request)
                             THEN Unwrap(new_current_request) ELSE current_request
       /\ UNCHANGED <<current_workspace, bridgeVars, dialogVars, disk, next_id>>

\* the end of draw_collections_panel: what the frame's click left in the four
\* locals is stored
StoreSelection(selected_collection, selected_folder_path, selected_request, new_current_request) ==
    LET ws == CurrentWorkspace
        ws1 == IF IsSome(selected_collection)
               THEN [ws EXCEPT
                        !.selected_collection = selected_collection,
                        !.selected_folder_path =
                            IF IsSome(selected_folder_path)
                            THEN Unwrap(selected_folder_path) ELSE @,
                        !.selected_request = IF selected_request = None THEN None ELSE @]
               ELSE ws
        ws2 == IF IsSome(selected_request)
               THEN [ws1 EXCEPT !.selected_request = selected_request]
               ELSE ws1
    IN /\ workspaces' = SetAt(workspaces, current_workspace, ws2)
       /\ current_request' = IF IsSome(new_current_request)
                             THEN Unwrap(new_current_request) ELSE current_request
       /\ UNCHANGED <<current_workspace, bridgeVars, dialogVars, disk, next_id>>

\* a click on a collection label
ClickCollection(collection_idx) ==
    /\ collection_idx \in Indices(CurrentWorkspace.collections)
    /\ StoreSelection(Some(collection_idx), Some(<<>>), None, None)

\* the folder labels and the request labels the panel draws
DrawnFolderPaths ==
    IF IsSome(DrawnCollection)
    THEN DrawnFolders(Unwrap(DrawnCollection).root_folder, <<>>,
                      CurrentWorkspace.selected_folder_path)
    ELSE {}

DrawnRequestLabels ==
    IF IsSome(DrawnCollection)
    THEN DrawnRequests(Unwrap(DrawnCollection).root_folder, <<>>,
                       CurrentWorkspace.selected_folder_path)
    ELSE {}

\* a click on a folder label
ClickFolder(folder_path) ==
    /\ folder_path \in DrawnFolderPaths
    /\ StoreSelection(None, Some(folder_path), None, None)

\* a click on a request label
ClickRequest(request_idx, request) ==
    /\ <<request_idx, request>> \in DrawnRequestLabels
    /\ StoreSelection(None, None, Some(request_idx), Some(request))

\* Path::file_stem of a path without directories
FileStem(path) ==
    LET dots == {i \in 2 .. Len(path) : path[i] = "."}
    IN IF dots = {} THEN path
       ELSE SubSeq(path, 1, (CHOOSE i \in dots : \A j \in dots : j <= i) - 1)

\* std::fs::read_to_string then serde_json::from_str::<AppStorage>
ReadStorage(fs, path) ==
    IF IsSome(ReadFile(fs, path)) /\ Unwrap(ReadFile(fs, path)).format = "AppStorage"
    THEN ReadFile(fs, path) ELSE None

\* std::fs::read_to_string then serde_json::from_str::<Collection>
ReadCollection(fs, path) ==
    IF IsSome(ReadFile(fs, path)) /\ Unwrap(ReadFile(fs, path)).format = "Collection"
    THEN Some(Unwrap(ReadFile(fs, path)).collections[1]) ELSE None

\* load_from_file selecting the first collection and environment without
\* looking at the lists
LoadFromFileSelectFirst(wss, cw, fs, picked) ==
    IF IsSome(picked) /\ IsSome(ReadStorage(fs, Unwrap(picked)))
    THEN LET storage == Unwrap(ReadStorage(fs, Unwrap(picked)))
             new_workspace ==
                 Workspace(FileStem(Unwrap(picked)), picked,
                           storage.collections, storage.environments,
                           Some(0), <<>>, None, Some(0))
         IN [workspaces |-> Push(wss, new_workspace), current_workspace |-> Len(wss)]
    ELSE [workspaces |-> wss, current_workspace |-> cw]

\* load_from_file on (wss, cw) when the file dialog returned picked: a file
\* that reads and parses as AppStorage is opened as a new workspace, named
\* after the file, with the first collection and environment selected
LoadFromFile(wss, cw, fs, picked) ==
    IF IsSome(picked) /\ IsSome(ReadStorage(fs, Unwrap(picked)))
    THEN LET storage == Unwrap(ReadStorage(fs, Unwrap(picked)))
             new_workspace ==
                 Workspace(FileStem(Unwrap(picked)), picked,
                           storage.collections, storage.environments,
                           IF storage.collections # <<>> THEN Some(0) ELSE None,
                           <<>>, None,
                           IF storage.environments # <<>> THEN Some(0) ELSE None)
         IN [workspaces |-> Push(wss, new_workspace), current_workspace |-> Len(wss)]
    ELSE [workspaces |-> wss, current_workspace |-> cw]

\* File > Load Workspace
load_from_file(picked) ==
    /\ Len(workspaces) < MaxWorkspaces
    /\ workspaces' = LoadFromFile(workspaces, current_workspace, disk, picked).workspaces
    /\ current_workspace' =
           LoadFromFile(workspaces, current_workspace, disk, picked).current_workspace
    /\ UNCHANGED <<current_request, bridgeVars, dialogVars, disk, next_id>>

\* File > Import Collection; picked is what the file dialog returned
import_collection(picked) ==
    /\ Len(CurrentWorkspace.collections) < MaxCollections
    /\ IF IsSome(picked) /\ IsSome(ReadCollection(disk, Unwrap(picked)))
       THEN LET ws == CurrentWorkspace
                pushed == SetAt(workspaces, current_workspace,
                                [ws EXCEPT !.collections =
                                    Push(@, Unwrap(ReadCollection(disk, Unwrap(picked))))])
            IN /\ workspaces' = pushed
               /\ disk' = AutoSave(disk, At(pushed, current_workspace))
       ELSE UNCHANGED <<workspaces, disk>>
    /\ UNCHANGED <<current_workspace, current_request, bridgeVars, dialogVars, next_id>>

\* save_to_file recording the picked path whether or not the write succeeded
SaveToFileAlwaysBacked(wss, cw, fs, picked) ==
    IF IsSome(picked)
    THEN LET workspace == At(wss, cw)
             data == StorageFile(workspace.collections, workspace.environments)
         IN [workspaces |-> SetAt(wss, cw, [workspace EXCEPT !.file_path = picked]),
             disk |-> WriteFile(fs, Unwrap(picked), data)]
    ELSE [workspaces |-> wss, disk |-> fs]

\* save_to_file on (wss, cw) when the save dialog returned picked: the
\* collections and environments are written, and the path becomes the
\* workspace's file_path if the write succeeded
SaveToFile(wss, cw, fs, picked) ==
    IF IsSome(picked)
    THEN LET workspace == At(wss, cw)
             data == StorageFile(workspace.collections, workspace.environments)
         IN IF WriteOk(fs, Unwrap(picked))
            THEN [workspaces |-> SetAt(wss, cw, [workspace EXCEPT !.file_path = picked]),
                  disk |-> WriteFile(fs, Unwrap(picked), data)]
            ELSE [workspaces |-> wss, disk |-> WriteFile(fs, Unwrap(picked), data)]
    ELSE [workspaces |-> wss, disk |-> fs]

\* File > Save Workspace...
save_to_file(picked) ==
    /\ workspaces' = SaveToFile(workspaces, current_workspace, disk, picked).workspaces
    /\ disk' = SaveToFile(workspaces, current_workspace, disk, picked).disk
    /\ UNCHANGED <<current_workspace, current_request, bridgeVars, dialogVars, next_id>>

-----------------------------------------------------------------------------
(* The resolver on its own: a request body and an environment drawn from   *)
(* bounded sets, resolved by send_request                                   *)

T_a == <<"a">>
T_b == <<"b">>
T_x == <<"x">>
T_Open == <<"{", "{">>
T_Close == <<"}", "}">>

Pieces == {T_Open, T_Close, T_a, Placeholder(T_a), Placeholder(T_b)}

\* the (name, value) pairs an environment is filled from: plain values, an
\* empty value, a value that names another variable, a value that names its
\* own variable, an empty name, a name with braces in it
VarPairs ==
    { <<T_a, T_x>>, <<T_a, <<>> >>, <<T_a, Placeholder(T_b)>>, <<T_a, Placeholder(T_a)>>,
      <<T_b, T_x>>, <<<<>>, T_x>>, <<T_Open \o T_b, T_x>> }

\* "{{base}}/users/{{id}}" against base = "https://api.test", id = "42"
T_base == <<"b", "a", "s", "e">>
T_id == <<"i", "d">>
T_missing == <<"m", "i", "s", "s", "i", "n", "g">>
ExampleInput ==
    Placeholder(T_base) \o <<"/", "u", "s", "e", "r", "s", "/">> \o Placeholder(T_id)
ExampleVars ==
    << <<T_base, <<"h", "t", "t", "p", "s", ":", "/", "/", "a", "p", "i", ".", "t", "e", "s", "t">> >>,
       <<T_id, <<"4", "2">> >> >>
ExampleOutput ==
    <<"h", "t", "t", "p", "s", ":", "/", "/", "a", "p", "i", ".", "t", "e", "s", "t",
      "/", "u", "s", "e", "r", "s", "/", "4", "2">>

Inputs ==
    {Concat(ps) : ps \in UNION {[1 .. m -> Pieces] : m \in 0 .. MaxPieces}}
        \cup {ExampleInput, Placeholder(T_missing)}

VarLists ==
    UNION {[1 .. m -> VarPairs] : m \in 0 .. MaxVars} \cup {ExampleVars}

BridgeIdle ==
    /\ current_response = None
    /\ is_loading = FALSE
    /\ response_receiver = None
    /\ channels = <<>>
    /\ tasks = <<>>

DialogsClosed ==
    /\ new_request_dialog = FALSE
    /\ new_request_name = <<>>
    /\ new_folder_dialog = FALSE
    /\ new_folder_name = <<>>
    /\ new_collection_dialog = FALSE
    /\ new_collection_name = <<>>
    /\ new_environment_dialog = FALSE
    /\ new_environment_name = <<>>
    /\ new_workspace_dialog = FALSE
    /\ new_workspace_name = <<>>

NoFiles == [path \in {} |-> None]

InitResolve ==
    /\ \E variables \in VarLists, selected \in {None, Some(0)} :
          workspaces = <<[DefaultWorkspace(T_Default, 1, 2) EXCEPT
                             !.environments = <<Environment(T_Default, variables)>>,
                             !.selected_environment = selected]>>
    /\ current_workspace = 0
    /\ \E body \in Inputs :
          current_request = [DefaultRequest(3) EXCEPT !.body = body, !.body_type = "Raw"]
    /\ BridgeIdle
    /\ DialogsClosed
    /\ disk = NoFiles
    /\ next_id = FirstId

NextResolve == ClickSend

SpecResolve == InitResolve /\ [][NextResolve]_vars

-----------------------------------------------------------------------------
(* Claims about resolve_value, read off the task that send_request spawned: *)
(* its request.body is the input, its resolved_body the output              *)

\* the variables resolve_value loops over: those of the selected environment
ActiveVariables ==
    IF /\ IsSome(CurrentWorkspace.selected_environment)
       /\ Unwrap(CurrentWorkspace.selected_environment) < Len(CurrentWorkspace.environments)
    THEN At(CurrentWorkspace.environments,
            Unwrap(CurrentWorkspace.selected_environment)).variables
    ELSE <<>>

ActiveKeys == {ActiveVariables[i][1] : i \in DOMAIN ActiveVariables}

BraceFree(s) == \A i \in DOMAIN s : s[i] \notin {"{", "}"}

\* the literal {{name}}
Literal(name) == <<"{", "{">> \o name \o <<"}", "}">>

\* s holds some {{...}}: two opening braces and, after them, two closing ones
HasPlaceholder(s) ==
    \E p, q \in 1 .. Len(s) :
        /\ OccursAt(s, <<"{", "{">>, p)
        /\ OccursAt(s, <<"}", "}">>, q)
        /\ q >= p + 2

\* variable i is the first of the list with its name
FirstOfName(variables, i) == \A j \in 1 .. (i - 1) : variables[j][1] # variables[i][1]

RECURSIVE Repeat(_, _)
Repeat(s, n) == IF n = 0 THEN <<>> ELSE s \o Repeat(s, n - 1)

\* "Every occurrence of pat in s is replaced by rep", stated on positions: the
\* matches are the occurrences that no earlier match overlaps; each match
\* becomes rep, every other character stays.
Occurrences(s, pat) == {p \in 1 .. Len(s) : OccursAt(s, pat, p)}

Matches(s, pat) ==
    CHOOSE M \in SUBSET Occurrences(s, pat) :
        \A q \in Occurrences(s, pat) :
            q \in M <=> ~(\E p \in M : p < q /\ q < p + Len(pat))

EveryOccurrenceReplaced(s, pat, rep) ==
    LET M == Matches(s, pat)
    IN Concat([q \in 1 .. Len(s) |->
                  IF q \in M THEN rep
                  ELSE IF \E p \in M : p < q /\ q < p + Len(pat) THEN <<>>
                  ELSE <<s[q]>>])

\* one such replacement per variable, in list order
RECURSIVE PassByPass(_, _)
PassByPass(s, variables) ==
    IF variables = <<>> THEN s
    ELSE PassByPass(EveryOccurrenceReplaced(s, Literal(Head(variables)[1]), Head(variables)[2]),
                    Tail(variables))

\* C7, as claimed: a placeholder {{kj}} that is not in the input and comes in
\* only with the value of variable i (the first named ki, whose placeholder the
\* input holds; names non-empty and without braces) is still in the output,
\* unexpanded.
C7_NoRecursiveExpansion ==
    \A n \in DOMAIN tasks :
        \A i, j \in DOMAIN ActiveVariables :
            LET ki == ActiveVariables[i][1]
                kj == ActiveVariables[j][1]
            IN (/\ i # j
                /\ ki # <<>> /\ kj # <<>>
                /\ BraceFree(ki) /\ BraceFree(kj)
                /\ FirstOfName(ActiveVariables, i)
                /\ Contains(tasks[n].request.body, Literal(ki))
                /\ ~Contains(tasks[n].request.body, Literal(kj))
                /\ Contains(ActiveVariables[i][2], Literal(kj)))
               => Contains(tasks[n].resolved_body, Literal(kj))

\* C8, as claimed: for every input and every environment, a placeholder
\* {{name}} whose name is no key of the active environment is in the output.
C8_PassthroughAnyKeys ==
    \A n \in DOMAIN tasks :
        \A name \in {T_a, T_b} :
            (name \notin ActiveKeys /\ Contains(tasks[n].request.body, Literal(name)))
                => Contains(tasks[n].resolved_body, Literal(name))

\* C8, amended: when no variable name of the active environment holds a brace,
\* a placeholder {{name}} (name without braces) whose name is no key of the
\* environment is in the output; and the input that is exactly {{name}}
\* ("{{missing}}") resolves to itself against every environment without that
\* key, whatever its other keys and values.
C8_Passthrough ==
    \A n \in DOMAIN tasks :
        /\ (\A k \in ActiveKeys : BraceFree(k)) =>
              \A name \in {T_a, T_b, T_missing} :
                  (name \notin ActiveKeys /\ Contains(tasks[n].request.body, Literal(name)))
                      => Contains(tasks[n].resolved_body, Literal(name))
        /\ \A name \in {T_b, T_missing} :
              (name \notin ActiveKeys /\ tasks[n].request.body = Literal(name))
                  => tasks[n].resolved_body = Literal(name)

\* a request was resolved whose body holds {{b}} and {{a}}, where a is a
\* variable and b is not: {{a}} was replaced, {{b}} is still there
C8_Witness ==
    \E n \in DOMAIN tasks :
        /\ ActiveVariables # <<>>
        /\ \A k \in ActiveKeys : BraceFree(k)
        /\ T_a \in ActiveKeys /\ T_b \notin ActiveKeys
        /\ Contains(tasks[n].request.body, Literal(T_a))
        /\ Contains(tasks[n].request.body, Literal(T_b))
        /\ tasks[n].resolved_body # tasks[n].request.body
        /\ Contains(tasks[n].resolved_body, Literal(T_b))

\* C9: an input without any {{...}} is returned unchanged by every
\* environment, and every input is returned unchanged when no environment is
\* active (selected_environment unset, or not an index of the list).
C9_IdentityWithoutPlaceholder ==
    \A n \in DOMAIN tasks :
        /\ ~HasPlaceholder(tasks[n].request.body)
              => tasks[n].resolved_body = tasks[n].request.body
        /\ CurrentWorkspace.selected_environment = None
              => tasks[n].resolved_body = tasks[n].request.body
        /\ \A idx \in Len(CurrentWorkspace.environments) .. (Len(CurrentWorkspace.environments) + 1) :
              ResolveIn([CurrentWorkspace EXCEPT !.selected_environment = Some(idx)],
                        tasks[n].request.body) = tasks[n].request.body

\* a body with braces but no placeholder was resolved against an active
\* environment that has an empty key and a duplicate key
C9_Witness ==
    \E n \in DOMAIN tasks :
        /\ ~HasPlaceholder(tasks[n].request.body)
        /\ Contains(tasks[n].request.body, <<"{", "{">>)
        /\ Contains(tasks[n].request.body, <<"}", "}">>)
        /\ Len(ActiveVariables) = 2
        /\ ActiveVariables[1][1] = ActiveVariables[2][1]
        /\ ActiveVariables[1][1] = <<>>
        /\ tasks[n].resolved_body = tasks[n].request.body

-----------------------------------------------------------------------------
(* The send bridge: one request editor, the Send button, the background      *)
(* tasks and the frames that poll for their results                          *)

P_upload == <<"u", ".", "b">>
T_bytes == <<"b", "y">>
T_k == <<"k">>
T_v == <<"v">>

\* the requests the editor holds when the run starts: one per arm of the
\* task's match on body_type, and the request built by Default
SampleRequests ==
    { DefaultRequest(3),
      [DefaultRequest(3) EXCEPT !.method = "POST", !.body_type = "Raw",
                                !.body = Placeholder(T_a),
                                !.query_params = << <<T_k, <<"a", " ", "b">> >> >>],
      [DefaultRequest(3) EXCEPT !.method = "POST", !.body_type = "FormData",
                                !.body = T_x,
                                !.form_data = <<TextEntry(T_k, T_v), TextEntry(<<" ">>, T_v),
                                                FileEntry(<<"f">>, P_upload, <<"n">>)>>],
      [DefaultRequest(3) EXCEPT !.method = "BREW", !.body_type = "UrlEncoded",
                                !.headers = << <<T_ContentType, T_ApplicationJson>>,
                                               <<T_k, <<" ">> >> >>,
                                !.url_encoded_data = << <<T_k, T_v>>, << <<>>, T_v>> >>] }

\* the URLs typed into the URL field
Urls == {T_HttpbinUrl, Placeholder(T_a)}

\* the files the multipart arm reads: the upload exists or it does not
UploadDisks == {[path \in {P_upload} |-> Some(T_bytes)], NoFiles}

Init ==
    /\ workspaces = <<[DefaultWorkspace(T_Default, 1, 2) EXCEPT
                          !.environments = <<Environment(T_Default, << <<T_a, T_x>> >>)>>]>>
    /\ current_workspace = 0
    /\ current_request \in SampleRequests
    /\ BridgeIdle
    /\ DialogsClosed
    /\ disk \in UploadDisks
    /\ next_id = FirstId

Next ==
    \/ ClickSend
    \/ \E n \in DOMAIN tasks : TaskBuild(n)
    \/ \E n \in DOMAIN tasks : TaskTransportOk(n)
    \/ \E n \in DOMAIN tasks : TaskTransportErr(n)
    \/ update
    \/ \E url \in Urls : EditUrl(url)

Spec == Init /\ [][Next]_vars

\* the UI loop keeps running frames
SpecLive == Init /\ [][Next]_vars /\ WF_vars(update)

-----------------------------------------------------------------------------
(* Claims about the send bridge *)

\* the dispatches whose result the UI has not absorbed: the task still runs,
\* or its result waits in the channel
InFlightOf(ts, chs) ==
    {n \in DOMAIN ts : ts[n].pc # "done" \/ chs[ts[n].tx].queue # <<>>}

InFlight == InFlightOf(tasks, channels)

\* the frame takes a result from the channel of the latest dispatch
ReceivesLatest ==
    /\ tasks # <<>>
    /\ CanReceive
    /\ Unwrap(response_receiver) = tasks[Len(tasks)].tx
    /\ tasks[Len(tasks)].pc = "done"
    /\ channels'[Unwrap(response_receiver)].received = 1

\* C1 (busy gating): in every step taken while is_loading is true no task and
\* no channel is added, and a Send click then changes nothing; at most one
\* dispatch is in flight after every step; a dispatch sets is_loading, and
\* is_loading falls only in the frame that receives the result of the latest
\* dispatch.
C1_BusyGating ==
    [][ /\ (is_loading => Len(tasks') = Len(tasks) /\ Len(channels') = Len(channels))
        /\ (is_loading /\ ClickSend => UNCHANGED vars)
        /\ Cardinality(InFlightOf(tasks', channels')) <= 1
        /\ (Len(tasks') > Len(tasks) =>
               /\ is_loading'
               /\ Len(tasks') = Len(tasks) + 1
               /\ Len(channels') = Len(channels) + 1)
        /\ (is_loading /\ ~is_loading' => ReceivesLatest) ]_vars

\* a first dispatch was absorbed and a second one is in flight with its
\* result waiting, is_loading still set
C1_Witness ==
    /\ Len(tasks) = 2
    /\ is_loading
    /\ InFlight = {2}
    /\ tasks[2].pc = "done"
    /\ channels[tasks[1].tx].received = 1

\* C2 (one result per dispatch, absorbed once): the channel of every
\* dispatched request has carried no result while its task runs and exactly
\* one once the task has ended, whatever body the task built and whether the
\* transport succeeded; the UI has taken at most that one result from it, and
\* once it has, the receiver is dropped and nothing is left to take.
C2_ExactlyOneResult ==
    \A n \in DOMAIN tasks :
        LET ch == channels[tasks[n].tx]
        IN /\ ch.sent = IF tasks[n].pc = "done" THEN 1 ELSE 0
           /\ tasks[n].pc = "done" <=> IsSome(tasks[n].result)
           /\ ch.received <= ch.sent
           /\ ch.rx_alive => Len(ch.queue) = ch.sent - ch.received
           /\ ch.rx_alive => ch.queue = tasks[n].result
           /\ ch.received = 1 =>
                 /\ ~ch.rx_alive
                 /\ ch.queue = <<>>
                 /\ response_receiver # Some(tasks[n].tx)
           /\ \A m \in DOMAIN tasks : m # n => tasks[m].tx # tasks[n].tx

\* a multipart request failed in transport and its one result was absorbed;
\* the next dispatch succeeded and its one result waits in the channel
C2_Witness ==
    /\ Len(tasks) = 2
    /\ tasks[1].pc = "done"
    /\ Unwrap(tasks[1].wire).body.kind = "multipart"
    /\ IsSome(Unwrap(tasks[1].result).err)
    /\ channels[tasks[1].tx].received = 1
    /\ tasks[2].pc = "done"
    /\ IsSome(Unwrap(tasks[2].result).ok)
    /\ channels[tasks[2].tx].sent = 1
    /\ channels[tasks[2].tx].received = 0

\* the task of the latest dispatch has ended
LatestCompleted == tasks # <<>> /\ tasks[Len(tasks)].pc = "done"

RECURSIVE SumReceived(_)
SumReceived(chs) == IF chs = <<>> THEN 0 ELSE Head(chs).received + SumReceived(Tail(chs))

\* C3 (liveness of the send bridge): when the UI loop keeps running frames,
\* the completion of the latest dispatch's task leads to is_loading false with
\* a response held; is_loading falls only in a step that stores a response;
\* a frame takes at most one result, and a frame that finds none changes
\* nothing.
C3_Liveness ==
    /\ LatestCompleted ~> (~is_loading /\ IsSome(current_response))
    /\ [][ /\ (is_loading /\ ~is_loading' => CanReceive /\ IsSome(current_response'))
           /\ SumReceived(channels') <= SumReceived(channels) + 1
           /\ (update /\ ~CanReceive => UNCHANGED vars) ]_vars

\* the latest dispatch failed in transport, and the frame that received the
\* failure cleared is_loading and stored a response
C3_Witness ==
    /\ LatestCompleted
    /\ IsSome(Unwrap(tasks[Len(tasks)].result).err)
    /\ channels[tasks[Len(tasks)].tx].received = 1
    /\ ~is_loading
    /\ IsSome(current_response)

\* the frame takes a failure from the channel
ReceivesFailure ==
    /\ CanReceive
    /\ IsSome(Head(channels[Unwrap(response_receiver)].queue).err)
    /\ channels'[Unwrap(response_receiver)].received =
           channels[Unwrap(response_receiver)].received + 1

\* the frame takes a successful response from the channel
ReceivesSuccess ==
    /\ CanReceive
    /\ IsSome(Head(channels[Unwrap(response_receiver)].queue).ok)
    /\ channels'[Unwrap(response_receiver)].received =
           channels[Unwrap(response_receiver)].received + 1

\* C4 (error response shaping): the frame that takes a failure from the
\* channel stores a response with status 0, status text "Error", no headers,
\* headers_size 0, the failure text (which is not empty) as body and its
\* length as body_size, and clears is_loading; the frame that takes a
\* successful response clears is_loading too.
C4_ErrorShaping ==
    [][ /\ ReceivesFailure =>
              LET error == Unwrap(Head(channels[Unwrap(response_receiver)].queue).err)
              IN /\ IsSome(current_response')
                 /\ Unwrap(current_response').status = 0
                 /\ Unwrap(current_response').status_text = T_Error
                 /\ DOMAIN Unwrap(current_response').headers = {}
                 /\ Unwrap(current_response').headers_size = 0
                 /\ Unwrap(current_response').body = error
                 /\ error # <<>>
                 /\ Unwrap(current_response').body_size = Len(error)
                 /\ ~is_loading'
        /\ ReceivesSuccess => ~is_loading' ]_vars

\* a failure was delivered and is shown: status 0 with the failure text
C4_Witness ==
    /\ IsSome(current_response)
    /\ Unwrap(current_response).status = 0
    /\ ~is_loading
    /\ \E n \in DOMAIN tasks :
          /\ tasks[n].pc = "done"
          /\ IsSome(Unwrap(tasks[n].result).err)
          /\ Unwrap(current_response).body = Unwrap(Unwrap(tasks[n].result).err)
          /\ channels[tasks[n].tx].received = 1

-----------------------------------------------------------------------------
(* The workspace store: the default workspace, files to load and import,     *)
(* the collections panel, the request editor and the two dialogs             *)

P_workspace == <<"w", ".", "j">>
P_empty == <<"e", ".", "j">>
P_collection == <<"c", ".", "j">>
P_notes == <<"n", ".", "t">>

\* a GET request as the files hold it
StoredRequest(id, name) == [DefaultRequest(id) EXCEPT !.name = name]

\* the collection of the workspace file: folders two levels deep
NestedCollection ==
    Collection(10, <<"N">>,
        Folder(11, T_Root, <<StoredRequest(12, <<"r">>)>>,
               << Folder(13, <<"A">>, <<StoredRequest(14, <<"s">>)>>,
                         <<Folder(15, <<"B">>, <<>>, <<>>)>>),
                  Folder(16, <<"C">>, <<>>, <<>>) >>))

\* the collection of the export file
ExportedCollection ==
    Collection(20, <<"X">>, Folder(21, T_Root, <<StoredRequest(22, <<"t">>)>>, <<>>))

\* the files on disk when the run starts: a saved workspace, a saved workspace
\* without collections, an exported collection, a file that is not JSON
StoreDisk ==
    [path \in {P_workspace, P_empty, P_collection, P_notes} |->
        IF path = P_workspace
        THEN Some(StorageFile(<<NestedCollection>>,
                              <<Environment(T_Default, << <<T_a, T_x>> >>)>>))
        ELSE IF path = P_empty THEN Some(StorageFile(<<>>, <<>>))
        ELSE IF path = P_collection THEN Some(CollectionFile(ExportedCollection))
        ELSE Some(GarbageFile)]

\* what a file dialog returns: nothing, or one of the files
Picked == {None} \cup {Some(path) : path \in DOMAIN StoreDisk}

\* the names typed into the dialogs
Names == {<<"n">>, <<" ">>}

\* the state after construction, or after one File > Load Workspace on it
InitStore ==
    /\ \E picked \in Picked :
          LET loaded == LoadFromFile(<<DefaultWorkspace(T_Default, 1, 2)>>, 0, StoreDisk,
                                     picked)
          IN /\ workspaces = loaded.workspaces
             /\ current_workspace = loaded.current_workspace
    /\ current_request = DefaultRequest(3)
    /\ BridgeIdle
    /\ DialogsClosed
    /\ disk = StoreDisk
    /\ next_id = FirstId

NextStore ==
    \/ \E idx \in Indices(workspaces) : SwitchWorkspace(idx)
    \/ \E collection_idx \in Indices(CurrentWorkspace.collections) :
          ClickCollection(collection_idx)
    \/ \E folder_path \in DrawnFolderPaths : ClickFolder(folder_path)
    \/ \E drawn \in DrawnRequestLabels : ClickRequest(drawn[1], drawn[2])
    \/ \E url \in Urls : EditUrl(url)
    \/ MenuNewFolder
    \/ \E name \in Names : TypeFolderName(name)
    \/ CreateFolder
    \/ CancelFolder
    \/ MenuNewRequest
    \/ \E name \in Names : TypeRequestName(name)
    \/ CreateRequest
    \/ CancelRequest

SpecStore == InitStore /\ [][NextStore]_vars

-----------------------------------------------------------------------------
(* The File menu: workspaces loaded and collections imported from files *)

InitFiles ==
    /\ workspaces = <<DefaultWorkspace(T_Default, 1, 2)>>
    /\ current_workspace = 0
    /\ current_request = DefaultRequest(3)
    /\ BridgeIdle
    /\ DialogsClosed
    /\ disk = StoreDisk
    /\ next_id = FirstId

NextFiles ==
    \/ \E picked \in Picked : load_from_file(picked)
    \/ \E picked \in Picked : import_collection(picked)
    \/ \E idx \in Indices(workspaces) : SwitchWorkspace(idx)
    \/ \E collection_idx \in Indices(CurrentWorkspace.collections) :
          ClickCollection(collection_idx)
    \/ \E drawn \in DrawnRequestLabels : ClickRequest(drawn[1], drawn[2])
    \/ \E url \in Urls : EditUrl(url)

SpecFiles == InitFiles /\ [][NextFiles]_vars

-----------------------------------------------------------------------------
(* Persistence: every operation that changes what a workspace file holds *)

\* what the variable fields are edited to
VariableTexts == {T_b}

\* the constructed state, or the state after one File > Load Workspace, with
\* the four New ... dialogs open and a name typed into each
InitPersist ==
    /\ \E picked \in Picked :
          LET loaded == LoadFromFile(<<DefaultWorkspace(T_Default, 1, 2)>>, 0, StoreDisk,
                                     picked)
          IN /\ workspaces = loaded.workspaces
             /\ current_workspace = loaded.current_workspace
    /\ current_request = DefaultRequest(3)
    /\ BridgeIdle
    /\ new_folder_dialog = TRUE
    /\ new_folder_name = <<"n">>
    /\ new_request_dialog = TRUE
    /\ new_request_name = <<"n">>
    /\ new_collection_dialog = TRUE
    /\ new_collection_name = <<"n">>
    /\ new_environment_dialog = TRUE
    /\ new_environment_name = <<"n">>
    /\ new_workspace_dialog = FALSE
    /\ new_workspace_name = <<>>
    /\ disk = StoreDisk
    /\ next_id = FirstId

NextPersist ==
    \/ \E drawn \in DrawnRequestLabels : ClickRequest(drawn[1], drawn[2])
    \/ \E url \in Urls : EditUrl(url)
    \/ CreateFolder
    \/ CreateRequest
    \/ CreateCollection
    \/ CreateEnvironment
    \/ \E picked \in Picked : import_collection(picked)
    \/ AddVariable
    \/ \E i \in Indices(ShownVariables), key \in VariableTexts : EditVariableKey(i, key)
    \/ \E i \in Indices(ShownVariables), value \in VariableTexts : EditVariableValue(i, value)
    \/ \E i \in Indices(ShownVariables) : RemoveVariable(i)

SpecPersist == InitPersist /\ [][NextPersist]_vars

\* the New Collection and New Environment dialogs from the menu to Create or
\* Cancel, on the constructed state or a loaded workspace
NextDialogs ==
    \/ MenuNewCollection
    \/ \E name \in Names : TypeCollectionName(name)
    \/ CreateCollection
    \/ CancelCollection
    \/ MenuNewEnvironment
    \/ \E name \in Names : TypeEnvironmentName(name)
    \/ CreateEnvironment
    \/ CancelEnvironment

SpecDialogs == InitStore /\ [][NextDialogs]_vars

-----------------------------------------------------------------------------
(* The environment panel: the keys of the selected environment's variables *)

\* the keys typed into the key fields: empty, blank, a name, the same name
\* with whitespace before or after it, another name
KeyTexts == {<<>>, <<" ">>, T_a, <<" ", "a">>, <<"a", " ">>, T_b}

KeyLists == UNION {[1 .. m -> {<<key, <<>> >> : key \in KeyTexts}] : m \in 0 .. MaxKeys}

InitKeys ==
    /\ \E variables \in KeyLists :
          workspaces = <<[DefaultWorkspace(T_Default, 1, 2) EXCEPT
                             !.environments = <<Environment(T_Default, variables)>>]>>
    /\ current_workspace = 0
    /\ current_request = DefaultRequest(3)
    /\ BridgeIdle
    /\ DialogsClosed
    /\ disk = NoFiles
    /\ next_id = FirstId

NextKeys ==
    \/ AddVariable
    \/ \E i \in Indices(ShownVariables), key \in KeyTexts : EditVariableKey(i, key)
    \/ \E i \in Indices(ShownVariables) : RemoveVariable(i)

SpecKeys == InitKeys /\ [][NextKeys]_vars

-----------------------------------------------------------------------------
(* The File menu with reads and writes that fail *)

P_gone == <<"g", ".", "j">>
P_saved == <<"s", ".", "j">>

\* the files of StoreDisk and a saved workspace that cannot be written
FailDisk ==
    [path \in DOMAIN StoreDisk \cup {P_locked} |->
        IF path = P_locked THEN Some(StorageFile(<<ExportedCollection>>, <<>>))
        ELSE StoreDisk[path]]

\* what the pick dialog returns: nothing, a file, or a file that is gone by
\* the time it is read
OpenPicked == {None} \cup {Some(path) : path \in DOMAIN FailDisk \cup {P_gone}}

\* what the save dialog returns: nothing, a new file, the file that cannot be
\* written
SavePicked == {None, Some(P_saved), Some(P_locked)}

InitLoad ==
    /\ workspaces = <<DefaultWorkspace(T_Default, 1, 2)>>
    /\ current_workspace = 0
    /\ current_request = DefaultRequest(3)
    /\ BridgeIdle
    /\ DialogsClosed
    /\ disk = FailDisk
    /\ next_id = FirstId

\* loading and importing, with the cursors of the open workspaces moved by
\* clicks in the collections panel
NextLoad ==
    \/ \E picked \in OpenPicked : load_from_file(picked)
    \/ \E picked \in OpenPicked : import_collection(picked)
    \/ \E idx \in Indices(workspaces) : SwitchWorkspace(idx)
    \/ \E collection_idx \in Indices(CurrentWorkspace.collections) :
          ClickCollection(collection_idx)
    \/ \E drawn \in DrawnRequestLabels : ClickRequest(drawn[1], drawn[2])

SpecLoad == InitLoad /\ [][NextLoad]_vars

\* loading, importing and saving
NextFailures ==
    \/ \E picked \in OpenPicked : load_from_file(picked)
    \/ \E picked \in OpenPicked : import_collection(picked)
    \/ \E picked \in SavePicked : save_to_file(picked)
    \/ \E idx \in Indices(workspaces) : SwitchWorkspace(idx)

SpecFailures == InitLoad /\ [][NextFailures]_vars

-----------------------------------------------------------------------------
(* Edits made while a request is in flight *)

\* the values typed into the value field of a variable
ValueTexts == {T_x, T_b}

\* the default workspace with the variable a, and a workspace loaded from a
\* file without environments; the editor holds a request with placeholders
InitIsolation ==
    /\ LET loaded == LoadFromFile(
                         <<[DefaultWorkspace(T_Default, 1, 2) EXCEPT
                               !.environments = <<Environment(T_Default, << <<T_a, T_x>> >>)>>]>>,
                         0, StoreDisk, Some(P_empty))
       IN /\ workspaces = loaded.workspaces
          /\ current_workspace = loaded.current_workspace
    /\ current_request = [DefaultRequest(3) EXCEPT !.method = "POST", !.body_type = "Raw",
                                                   !.url = Placeholder(T_a),
                                                   !.headers = << <<T_k, Placeholder(T_a)>> >>,
                                                   !.body = Placeholder(T_a)]
    /\ BridgeIdle
    /\ DialogsClosed
    /\ disk = StoreDisk
    /\ next_id = FirstId

\* the Send button, the task (whose transport succeeds), the frames, and the
\* edits of the request, the variables, the selection and the workspace tab
NextIsolation ==
    \/ ClickSend
    \/ \E n \in DOMAIN tasks : TaskBuild(n)
    \/ \E n \in DOMAIN tasks : TaskTransportOk(n)
    \/ update
    \/ \E url \in Urls : EditUrl(url)
    \/ \E i \in Indices(ShownVariables), value \in ValueTexts : EditVariableValue(i, value)
    \/ \E selection \in {None, Some(0)} : SelectEnvironment(selection)
    \/ \E idx \in Indices(workspaces) : SwitchWorkspace(idx)

SpecIsolation == InitIsolation /\ [][NextIsolation]_vars

-----------------------------------------------------------------------------
(* Claims about the folder-tree addressor and the write paths *)

Front(s) == SubSeq(s, 1, Len(s) - 1)
Last(s) == s[Len(s)]

\* the folder an address names, found from its last index backwards: the
\* child Last(address) of the folder that the rest of the address names
RECURSIVE Reached(_, _)
Reached(root_folder, address) ==
    IF address = <<>> THEN root_folder
    ELSE Reached(root_folder, Front(address)).folders[Last(address) + 1]

\* every index of the address is in range for the folder at its depth
RECURSIVE InRange(_, _)
InRange(root_folder, address) ==
    \/ address = <<>>
    \/ /\ InRange(root_folder, Front(address))
       /\ Last(address) < Len(Reached(root_folder, Front(address)).folders)

\* the addresses tried against a tree: every address in range, and for every
\* folder of the tree the addresses that leave it by its first index out of
\* range, alone and followed by one more index
RECURSIVE ValidAddresses(_)
ValidAddresses(folder) ==
    {<<>>} \cup UNION { {<<i>> \o rest : rest \in ValidAddresses(At(folder.folders, i))}
                        : i \in Indices(folder.folders) }

BrokenAddresses(root_folder) ==
    { address \o <<Len(Reached(root_folder, address).folders)>> \o after :
          address \in ValidAddresses(root_folder), after \in {<<>>, <<0>>} }

Addresses(root_folder) == ValidAddresses(root_folder) \cup BrokenAddresses(root_folder)

AllCollections ==
    UNION {{workspaces[w].collections[c] : c \in DOMAIN workspaces[w].collections} :
              w \in DOMAIN workspaces}

Marker == Folder(0, <<"m">>, <<>>, <<>>)

\* C5 (addressing): for every collection of every workspace and every address
\* in range at every depth, get_folder_by_path and get_folder_by_path_mut
\* return the folder reached by descending index by index, and a write through
\* the mutable variant lands in that folder; the empty address gives the root.
C5_Addressing ==
    \A collection \in AllCollections :
        /\ get_folder_by_path(collection, <<>>) = Some(collection.root_folder)
        /\ get_folder_by_path_mut(collection, <<>>) = Some(collection.root_folder)
        /\ \A address \in Addresses(collection.root_folder) :
              InRange(collection.root_folder, address) =>
                 /\ get_folder_by_path(collection, address)
                        = Some(Reached(collection.root_folder, address))
                 /\ get_folder_by_path_mut(collection, address)
                        = Some(Reached(collection.root_folder, address))
                 /\ Reached(WriteFolderIn(collection, address, Marker).root_folder, address)
                        = Marker

\* a loaded collection two levels deep, with a folder created next to its
\* first-level folders: address (0, 0) names B, address (2) the new folder
C5_Witness ==
    \E collection \in AllCollections :
        /\ Len(collection.root_folder.folders) = 3
        /\ get_folder_by_path(collection, <<0, 0>>) = Some(Folder(15, <<"B">>, <<>>, <<>>))
        /\ IsSome(get_folder_by_path_mut(collection, <<2>>))
        /\ Unwrap(get_folder_by_path_mut(collection, <<2>>)).id >= FirstId

\* the folder part of a cursor does not resolve in workspace ws
FolderUnresolved(ws, collection_idx, folder_path) ==
    \/ collection_idx = None
    \/ Unwrap(collection_idx) >= Len(ws.collections)
    \/ ~InRange(At(ws.collections, Unwrap(collection_idx)).root_folder, folder_path)

\* the cursor does not resolve to a stored request in workspace ws
RequestUnresolved(ws, collection_idx, request_idx, folder_path) ==
    \/ FolderUnresolved(ws, collection_idx, folder_path)
    \/ request_idx = None
    \/ Unwrap(request_idx) >=
          Len(Reached(At(ws.collections, Unwrap(collection_idx)).root_folder,
                      folder_path).requests)

\* both lookups answer None for an address with an index out of range
LookupsFail ==
    \A collection \in AllCollections :
        \A address \in Addresses(collection.root_folder) :
            ~InRange(collection.root_folder, address) =>
                /\ get_folder_by_path(collection, address) = None
                /\ get_folder_by_path_mut(collection, address) = None

\* the cursors tried against the write paths in workspace ws: no collection,
\* every collection and the first index past them; the addresses of the
\* collection's tree; no request, every request and the first index past them
CollectionIndices(ws) == {None} \cup {Some(i) : i \in 0 .. Len(ws.collections)}

FolderPaths(ws, collection_idx) ==
    IF collection_idx # None /\ Unwrap(collection_idx) < Len(ws.collections)
    THEN Addresses(At(ws.collections, Unwrap(collection_idx)).root_folder)
    ELSE {<<>>, <<0>>}

RequestIndices(ws, collection_idx, folder_path) ==
    IF FolderUnresolved(ws, collection_idx, folder_path)
    THEN {None, Some(0)}
    ELSE {None} \cup
         {Some(i) : i \in 0 .. Len(Reached(At(ws.collections,
                                              Unwrap(collection_idx)).root_folder,
                                           folder_path).requests)}

\* the three write paths, given a cursor that does not resolve, write nothing
WritePathsNoOp ==
    LET ws == CurrentWorkspace
    IN \A collection_idx \in CollectionIndices(ws) :
          \A folder_path \in FolderPaths(ws, collection_idx) :
             /\ FolderUnresolved(ws, collection_idx, folder_path) =>
                   /\ NewFolderAt(workspaces, current_workspace, collection_idx,
                                  folder_path, <<"n">>, next_id)
                          = Outcome(workspaces, FALSE)
                   /\ NewRequestAt(workspaces, current_workspace, collection_idx,
                                   folder_path, <<"n">>, next_id, current_request)
                          = Outcome(workspaces, FALSE)
             /\ \A request_idx \in RequestIndices(ws, collection_idx, folder_path) :
                   RequestUnresolved(ws, collection_idx, request_idx, folder_path) =>
                      SaveRequestAt(workspaces, current_workspace, collection_idx,
                                    request_idx, folder_path, current_request)
                          = Outcome(workspaces, FALSE)

CursorFolderUnresolved ==
    FolderUnresolved(CurrentWorkspace, CurrentWorkspace.selected_collection,
                     CurrentWorkspace.selected_folder_path)

CursorRequestUnresolved ==
    RequestUnresolved(CurrentWorkspace, CurrentWorkspace.selected_collection,
                      CurrentWorkspace.selected_request,
                      CurrentWorkspace.selected_folder_path)

\* C6 (addressing failure is a no-op): an address with an index out of range
\* makes both lookups answer None, whatever follows that index; save current
\* request, New Folder and New Request, given a collection index, folder path
\* or request index that is unset or out of range, return the workspaces as
\* they were and do not reach their write; and every edit of the request and
\* every Create click made while the cursor does not resolve leaves the
\* workspaces and the files on disk as they were.
C6_AddressingFailureNoOp ==
    /\ [](LookupsFail /\ WritePathsNoOp)
    /\ [][ /\ (CursorRequestUnresolved /\ (\E url \in Urls : EditUrl(url))) =>
                  (workspaces' = workspaces /\ disk' = disk)
           /\ (CursorFolderUnresolved /\ (CreateFolder \/ CreateRequest)) =>
                  (workspaces' = workspaces /\ disk' = disk) ]_vars

\* in a loaded workspace without collections (nothing selected) the URL was
\* edited and both dialogs hold a name for Create: nothing was stored and the
\* files are as they were
C6_Witness ==
    /\ CurrentWorkspace.selected_collection = None
    /\ CurrentWorkspace.file_path = Some(P_empty)
    /\ current_request.url # DefaultRequest(3).url
    /\ new_folder_dialog /\ ~IsBlank(new_folder_name)
    /\ new_request_dialog /\ ~IsBlank(new_request_name)
    /\ CurrentWorkspace.collections = <<>>
    /\ disk = StoreDisk

-----------------------------------------------------------------------------
(* The wire request: one request in the editor, dispatched once, with every  *)
(* field of the request drawn from a small set                               *)

BodyTypes == {"None", "Raw", "Json", "FormData", "UrlEncoded"}

T_h == <<"h">>
T_f == <<"f">>
T_n == <<"n">>
T_q == <<"q">>
T_Blank == <<" ">>
T_ab == <<"a", " ", "b">>
P_braces == Placeholder(T_a)
P_missing == <<"g", "o", "n", "e">>

\* the active environment: a resolves to x, q to a question mark
WireVariables == << <<T_a, T_x>>, <<T_q, <<"?">> >> >>

\* no query component, a query component, a placeholder, a placeholder that
\* brings a question mark
WireUrls == {T_h, T_h \o <<"?">> \o T_k, T_h \o Placeholder(T_a), T_h \o Placeholder(T_q)}

\* no parameter, blank keys only, mixed, "q=a b" and "n=1"
WireQueryParams ==
    { <<>>,
      << <<T_Blank, T_v>>, << <<>>, T_v>> >>,
      << <<T_k, T_ab>>, <<T_Blank, T_v>>, <<Placeholder(T_a), Placeholder(T_q)>> >>,
      << <<T_q, T_ab>>, <<T_n, <<"1">> >> >> }

\* no header, the default header, headers with blank and placeholder parts
WireHeaders ==
    { <<>>,
      << <<T_ContentType, T_ApplicationJson>> >>,
      << <<T_k, T_Blank>>, <<T_Blank, T_v>>, <<Placeholder(T_a), Placeholder(T_a)>>,
         <<T_k, T_v>>, << <<>>, <<>> >> >> }

WireBodies == {<<>>, T_Blank, Placeholder(T_a)}

\* no entry; text and file entries with blank and placeholder parts; a text
\* entry and a file entry whose file does not exist
WireFormData ==
    { <<>>,
      << TextEntry(T_k, T_v), TextEntry(T_Blank, T_v),
         FileEntry(T_f, P_upload, T_n), FileEntry(T_f, T_Blank, T_n),
         FileEntry(T_Blank, P_upload, T_n),
         TextEntry(Placeholder(T_a), Placeholder(T_a)),
         FileEntry(T_f, P_braces, Placeholder(T_a)) >>,
      << TextEntry(T_k, T_v), FileEntry(T_f, P_missing, T_n) >> }

WireUrlEncoded ==
    { <<>>,
      << <<T_k, T_v>>, << <<>>, T_v>>, <<Placeholder(T_a), Placeholder(T_a)>> >> }

\* the files on disk: the upload exists or not; the file whose path reads
\* like a placeholder and the file named like that placeholder's value exist
WireDisks ==
    { [path \in {P_upload, P_braces, T_x} |->
          IF path = P_upload THEN Some(T_bytes)
          ELSE IF path = P_braces THEN Some(<<"b", "r">>) ELSE Some(<<"r", "x">>)],
      [path \in {P_braces, T_x} |->
          IF path = P_braces THEN Some(<<"b", "r">>) ELSE Some(<<"r", "x">>)] }

InitWire ==
    /\ workspaces = <<[DefaultWorkspace(T_Default, 1, 2) EXCEPT
                          !.environments = <<Environment(T_Default, WireVariables)>>]>>
    /\ current_workspace = 0
    /\ \E url \in WireUrls, query_params \in WireQueryParams, headers \in WireHeaders,
          body_type \in BodyTypes, body \in WireBodies, form_data \in WireFormData,
          url_encoded_data \in WireUrlEncoded :
          current_request =
              HttpRequest(3, T_NewRequest, "POST", url, headers, body, body_type, form_data,
                          url_encoded_data, query_params)
    /\ BridgeIdle
    /\ DialogsClosed
    /\ disk \in WireDisks
    /\ next_id = FirstId

NextWire ==
    \/ ClickSend
    \/ \E n \in DOMAIN tasks : TaskBuild(n)
    \/ \E n \in DOMAIN tasks : TaskTransportOk(n)
    \/ \E n \in DOMAIN tasks : TaskTransportErr(n)

SpecWire == InitWire /\ [][NextWire]_vars

-----------------------------------------------------------------------------
(* Claims about the wire request *)

\* the tasks that have built their wire request
Built == {n \in DOMAIN tasks : IsSome(tasks[n].wire)}

WireOf(n) == Unwrap(tasks[n].wire)

IsPrefix(p, s) == Len(p) <= Len(s) /\ SubSeq(s, 1, Len(p)) = p

\* the elements of a sequence, as a set
Elements(s) == {s[i] : i \in DOMAIN s}

\* the query pairs expected of a parameter list: for every parameter whose
\* stored key is not blank, the encoded resolved key, "=", the encoded
\* resolved value
ExpectedPair(param) ==
    Encode(resolve_value(param[1])) \o <<"=">> \o Encode(resolve_value(param[2]))

NonBlankKey(param) == ~IsBlank(param[1])

ExpectedPairs(query_params) ==
    [i \in DOMAIN SelectSeq(query_params, NonBlankKey) |->
        ExpectedPair(SelectSeq(query_params, NonBlankKey)[i])]

\* C11 (scope of resolution): in every wire request built by a task, the URL
\* starts with the resolved stored URL and any query string after it is made
\* of the resolved keys and values; every header carries a stored name
\* unchanged with the resolved stored value; a text body is the resolved
\* stored body; every multipart part carries a stored key, value, file name
\* and the bytes of the stored path, all unresolved; every form parameter is a
\* stored pair, unresolved.
C11_ResolutionScope ==
    \A n \in Built :
        LET request == tasks[n].request
            wire == WireOf(n)
            url == resolve_value(request.url)
            pairs == ExpectedPairs(request.query_params)
        IN /\ IsPrefix(url, wire.url)
           /\ wire.url # url =>
                 \E separator \in {<<"?">>, <<"&">>} :
                    wire.url = url \o separator \o Join(pairs, <<"&">>)
           /\ \A h \in Elements(wire.headers) :
                 \E i \in DOMAIN request.headers :
                    /\ h[1] = request.headers[i][1]
                    /\ h[2] = resolve_value(request.headers[i][2])
           /\ wire.body.kind = "text" => wire.body.text = resolve_value(request.body)
           /\ \A part \in Elements(wire.body.parts) :
                 \E i \in DOMAIN request.form_data :
                    LET entry == request.form_data[i]
                    IN /\ part.name = entry.key
                       /\ part.text = entry.value
                       /\ part.file_name = entry.file_name
                       /\ part.kind = "file" => part.bytes = ReadFile(disk, entry.file_path)
           /\ Elements(wire.body.params) \subseteq Elements(request.url_encoded_data)

\* a url-encoded request was built whose header, query parameter and form
\* parameter all hold the placeholder in name and value: the header name and
\* the form parameter are on the wire as stored, the header value and the
\* query pair resolved
C11_Witness ==
    \E n \in Built :
        /\ WireOf(n).body.kind = "form"
        /\ <<Placeholder(T_a), T_x>> \in Elements(WireOf(n).headers)
        /\ <<Placeholder(T_a), Placeholder(T_a)>> \in Elements(WireOf(n).body.params)
        /\ <<Placeholder(T_a), Placeholder(T_q)>> \in Elements(tasks[n].request.query_params)
        /\ tasks[n].request.url = T_h \o Placeholder(T_a)
        /\ IsPrefix(T_h \o T_x \o <<"?">>, WireOf(n).url)

\* the number of occurrences of the character c in s
Count(s, c) == Cardinality({i \in DOMAIN s : s[i] = c})

\* "h?q=a%20b&n=1"
T_ExampleUrl == <<"h", "?", "q", "=", "a", "%", "2", "0", "b", "&", "n", "=", "1">>

\* C12 (query-string construction): the URL of every wire request is the
\* resolved stored URL when no query parameter has a non-blank key, and
\* otherwise the resolved URL, then "&" when the resolved URL holds a "?" and
\* "?" when it holds none, then the pairs of the parameters with non-blank key
\* in list order joined by "&"; the construction adds at most one "?".
C12_QueryString ==
    \A n \in Built :
        LET request == tasks[n].request
            wire == WireOf(n)
            url == resolve_value(request.url)
            pairs == ExpectedPairs(request.query_params)
            has_query == \E i \in DOMAIN url : url[i] = "?"
        IN /\ pairs = <<>> => wire.url = url
           /\ pairs # <<>> =>
                 wire.url = url \o (IF has_query THEN <<"&">> ELSE <<"?">>) \o Join(pairs, <<"&">>)
           /\ Count(wire.url, "?") <= Count(url, "?") + 1
           /\ has_query => Count(wire.url, "?") = Count(url, "?")

\* the parameters ("q","a b"), ("n","1") on a URL without query component
\* gave that URL followed by "?q=a%20b&n=1"
C12_Witness ==
    \E n \in Built :
        /\ tasks[n].request.url = T_h
        /\ tasks[n].request.query_params = << <<T_q, T_ab>>, <<T_n, <<"1">> >> >>
        /\ WireOf(n).url = T_ExampleUrl

\* the headers expected on the wire: the stored headers with resolved value
\* whose name and resolved value are both non-blank, in list order
BothNonBlank(header) == ~IsBlank(header[1]) /\ ~IsBlank(header[2])

ExpectedHeaders(headers) ==
    SelectSeq([i \in DOMAIN headers |-> <<headers[i][1], resolve_value(headers[i][2])>>],
              BothNonBlank)

\* C13 (header attachment): whatever the body kind, the wire request carries
\* exactly the resolved headers whose name and value are both non-blank.
C13_HeaderAttachment ==
    \A n \in Built : WireOf(n).headers = ExpectedHeaders(tasks[n].request.headers)

\* C14 (no body for kind None): a request whose body kind is None is built
\* without entity body, whatever its body text and its lists hold.
C14_NoneHasNoBody ==
    \A n \in Built :
        tasks[n].request.body_type = "None" => WireOf(n).body = NoBody

\* C15 (body-kind exclusivity): for the kinds Raw and Json the entity body is
\* the body text or absent, never a list; for FormData it is the multipart
\* form of the form-data list or absent, for UrlEncoded the form of the
\* url-encoded list or absent, never the body text, empty lists included.
C15_BodyKindExclusivity ==
    \A n \in Built :
        LET body_type == tasks[n].request.body_type
            kind == WireOf(n).body.kind
        IN /\ body_type \in {"Raw", "Json"} => kind \in {"text", "none"}
           /\ body_type = "FormData" => kind \in {"multipart", "none"}
           /\ body_type = "UrlEncoded" => kind \in {"form", "none"}

\* the form-data entries that contribute a part: text entries with non-blank
\* key, file entries with non-blank key and path whose file is on disk
Contributes(entry) ==
    /\ ~IsBlank(entry.key)
    /\ entry.kind = "File" => ~IsBlank(entry.file_path) /\ entry.file_path \in DOMAIN disk

ExpectedPart(entry) ==
    IF entry.kind = "Text"
    THEN [kind |-> "text", name |-> entry.key, text |-> entry.value,
          file_name |-> <<>>, bytes |-> None]
    ELSE [kind |-> "file", name |-> entry.key, text |-> <<>>,
          file_name |-> entry.file_name, bytes |-> disk[entry.file_path]]

ExpectedParts(form_data) ==
    [i \in DOMAIN SelectSeq(form_data, Contributes) |->
        ExpectedPart(SelectSeq(form_data, Contributes)[i])]

\* a file entry with non-blank key and path whose file is not on disk
UnreadableFile(entry) ==
    /\ entry.kind = "File"
    /\ ~IsBlank(entry.key)
    /\ ~IsBlank(entry.file_path)
    /\ entry.file_path \notin DOMAIN disk

\* C16 (multipart omission): a form-data request with entries is built as a
\* multipart form holding, in list order, exactly the parts of its text entries
\* with non-blank key and of its readable file entries with non-blank key and
\* path; building it produces no result, and once the task has ended it has
\* sent exactly one result.
C16_MultipartOmission ==
    \A n \in DOMAIN tasks :
        LET request == tasks[n].request
        IN request.body_type = "FormData" /\ request.form_data # <<>> =>
              /\ n \in Built =>
                    /\ WireOf(n).body.kind = "multipart"
                    /\ WireOf(n).body.parts = ExpectedParts(request.form_data)
              /\ tasks[n].pc # "done" =>
                    tasks[n].result = None /\ channels[tasks[n].tx].sent = 0
              /\ tasks[n].pc = "done" =>
                    IsSome(tasks[n].result) /\ channels[tasks[n].tx].sent = 1

\* a form-data request with an unreadable file entry followed by further
\* entries was sent with the other parts and the server's answer is its result
C16_Witness ==
    \E n \in Built :
        LET request == tasks[n].request
        IN /\ request.body_type = "FormData"
           /\ \E i \in DOMAIN request.form_data :
                 /\ UnreadableFile(request.form_data[i])
                 /\ i < Len(request.form_data)
           /\ Len(WireOf(n).body.parts) >= 2
           /\ tasks[n].pc = "done"
           /\ IsSome(Unwrap(tasks[n].result).ok)
           /\ channels[tasks[n].tx].queue = <<Unwrap(tasks[n].result)>>

-----------------------------------------------------------------------------
(* Claims about the effects of the write paths *)

\* the position the cursor of the current workspace names (1-based workspace
\* and collection, the folder address)
CursorWorkspace == current_workspace + 1
CursorCollection == Unwrap(CurrentWorkspace.selected_collection) + 1
CursorPath == CurrentWorkspace.selected_folder_path

CursorRoot == workspaces[CursorWorkspace].collections[CursorCollection].root_folder
CursorRootAfter == workspaces'[CursorWorkspace].collections[CursorCollection].root_folder

\* a workspace without its collections: name, file path, environments, cursors
Shell(ws) == [ws EXCEPT !.collections = <<>>]

\* two trees differ at most in the two lists of the folder at path: every
\* folder of the first is at the same address in the second with the same id
\* and name, and, unless it is the folder at path, the same requests and the
\* same number of subfolders
SameTreeOutside(root_before, root_after, path) ==
    \A address \in ValidAddresses(root_before) :
        /\ InRange(root_after, address)
        /\ LET before == Reached(root_before, address)
               after == Reached(root_after, address)
           IN /\ after.id = before.id
              /\ after.name = before.name
              /\ address # path =>
                    /\ after.requests = before.requests
                    /\ Len(after.folders) = Len(before.folders)

\* a step changes nothing outside the two lists of the folder the cursor
\* names: the workspaces, their environments, cursors, names and paths, the
\* other collections, and in the cursor's tree every folder's id, name and
\* place, and the requests and number of subfolders of every other folder
UnchangedOutsideCursorFolder ==
    /\ current_workspace' = current_workspace
    /\ DOMAIN workspaces' = DOMAIN workspaces
    /\ \A w \in DOMAIN workspaces :
          /\ Shell(workspaces'[w]) = Shell(workspaces[w])
          /\ DOMAIN workspaces'[w].collections = DOMAIN workspaces[w].collections
          /\ \A c \in DOMAIN workspaces[w].collections :
                LET before == workspaces[w].collections[c]
                    after == workspaces'[w].collections[c]
                IN IF w = CursorWorkspace /\ c = CursorCollection
                   THEN after.id = before.id /\ after.name = before.name
                   ELSE after = before
    /\ SameTreeOutside(CursorRoot, CursorRootAfter, CursorPath)

\* the positions of the current workspace: collection (1-based), folder
\* address, request (1-based)
Positions ==
    {<<c, address, i>> :
        c \in DOMAIN CurrentWorkspace.collections,
        address \in UNION {ValidAddresses(CurrentWorkspace.collections[k].root_folder) :
                              k \in DOMAIN CurrentWorkspace.collections},
        i \in 1 .. 2}

FolderPositions == {<<position[1], position[2]>> : position \in Positions}

RootAt(wss, c) == wss[CursorWorkspace].collections[c].root_folder

\* the workspaces differ at most in collection c of the current workspace
SameOutsideCollection(wss_before, wss_after, c) ==
    /\ DOMAIN wss_after = DOMAIN wss_before
    /\ \A w \in DOMAIN wss_before :
          /\ Shell(wss_after[w]) = Shell(wss_before[w])
          /\ DOMAIN wss_after[w].collections = DOMAIN wss_before[w].collections
          /\ \A k \in DOMAIN wss_before[w].collections :
                IF w = CursorWorkspace /\ k = c
                THEN /\ wss_after[w].collections[k].id = wss_before[w].collections[k].id
                     /\ wss_after[w].collections[k].name = wss_before[w].collections[k].name
                ELSE wss_after[w].collections[k] = wss_before[w].collections[k]

\* save_current_request, given any position that holds a request, writes
\* current_request over that request and nothing else
SavesAtEveryPosition ==
    \A position \in Positions :
        LET c == position[1]
            address == position[2]
            i == position[3]
            root == RootAt(workspaces, c)
        IN (InRange(root, address) /\ i <= Len(Reached(root, address).requests)) =>
              LET outcome == SaveRequestAt(workspaces, current_workspace, Some(c - 1),
                                           Some(i - 1), address, current_request)
                  before == Reached(root, address)
                  after == Reached(RootAt(outcome.workspaces, c), address)
              IN /\ outcome.written
                 /\ SameOutsideCollection(workspaces, outcome.workspaces, c)
                 /\ SameTreeOutside(root, RootAt(outcome.workspaces, c), address)
                 /\ Len(after.folders) = Len(before.folders)
                 /\ DOMAIN after.requests = DOMAIN before.requests
                 /\ after.requests[i] = current_request
                 /\ \A j \in DOMAIN before.requests :
                       j # i => after.requests[j] = before.requests[j]

\* an edit of the URL field, which ends in save_current_request
SaveStep == \E url \in Urls : EditUrl(url)

\* C17 (save current request): a save made while the cursor resolves puts
\* the edited current_request at the cursor's position and changes no other
\* request, no folder's child list, no other collection, no environment, no
\* cursor and no other workspace.
C17_SaveFrame ==
    /\ []SavesAtEveryPosition
    /\ [][ (~CursorRequestUnresolved /\ SaveStep) =>
              LET before == Reached(CursorRoot, CursorPath)
                  after == Reached(CursorRootAfter, CursorPath)
                  position == Unwrap(CurrentWorkspace.selected_request) + 1
              IN /\ UnchangedOutsideCursorFolder
                 /\ Len(after.folders) = Len(before.folders)
                 /\ DOMAIN after.requests = DOMAIN before.requests
                 /\ after.requests[position] = current_request'
                 /\ \A i \in DOMAIN before.requests :
                       i # position => after.requests[i] = before.requests[i] ]_vars

\* the second request of a loaded collection's root folder is selected and
\* holds the edited URL, the first one is as it was loaded, and the
\* subfolders are still there
C17_Witness ==
    /\ ~CursorRequestUnresolved
    /\ CurrentWorkspace.selected_request = Some(1)
    /\ LET folder == Reached(CursorRoot, CursorPath)
       IN /\ folder.requests[2] = current_request
          /\ folder.requests[2].url = Placeholder(T_a)
          /\ folder.requests[1] = StoredRequest(12, <<"r">>)
          /\ Len(folder.folders) = 2

\* the ids of a folder, its requests and everything below it
RECURSIVE FolderIds(_)
FolderIds(folder) ==
    {folder.id} \cup {folder.requests[i].id : i \in DOMAIN folder.requests}
                \cup UNION {FolderIds(folder.folders[i]) : i \in DOMAIN folder.folders}

\* every id stored in the workspaces
StoredIds ==
    UNION {{c.id} \cup FolderIds(c.root_folder) : c \in AllCollections}

\* Create clicked in the New Folder (New Request) dialog with a non-blank name
CreateFolderStep == new_folder_dialog /\ ~IsBlank(new_folder_name) /\ CreateFolder
CreateRequestStep == new_request_dialog /\ ~IsBlank(new_request_name) /\ CreateRequest

\* New Folder and New Request, given any folder of the current workspace,
\* append to that folder's list and change nothing else
AppendsAtEveryFolder ==
    \A position \in FolderPositions :
        LET c == position[1]
            address == position[2]
            root == RootAt(workspaces, c)
        IN InRange(root, address) =>
              LET before == Reached(root, address)
                  with_folder == NewFolderAt(workspaces, current_workspace, Some(c - 1),
                                             address, <<"n">>, next_id)
                  with_request == NewRequestAt(workspaces, current_workspace, Some(c - 1),
                                               address, <<"n">>, next_id, current_request)
                  after_folder == Reached(RootAt(with_folder.workspaces, c), address)
                  after_request == Reached(RootAt(with_request.workspaces, c), address)
              IN /\ with_folder.written
                 /\ SameOutsideCollection(workspaces, with_folder.workspaces, c)
                 /\ SameTreeOutside(root, RootAt(with_folder.workspaces, c), address)
                 /\ after_folder.requests = before.requests
                 /\ after_folder.folders
                       = before.folders \o <<Folder(next_id, <<"n">>, <<>>, <<>>)>>
                 /\ with_request.written
                 /\ SameOutsideCollection(workspaces, with_request.workspaces, c)
                 /\ SameTreeOutside(root, RootAt(with_request.workspaces, c), address)
                 /\ after_request.folders = before.folders
                 /\ after_request.requests
                       = before.requests \o <<[current_request EXCEPT !.id = next_id,
                                                                      !.name = <<"n">>]>>

\* C18 (structural appends): Create in the New Folder dialog with a non-blank
\* name, made while the cursor's collection and folder address resolve, adds
\* one folder with the given name, a fresh id and empty lists after the last
\* subfolder of the addressed folder; Create in the New Request dialog adds
\* one copy of current_request with the given name and a fresh id after the
\* last request of that folder; the existing subfolders and requests keep
\* their order and content and nothing else changes, cursors included.
C18_StructuralAppends ==
    /\ []AppendsAtEveryFolder
    /\ [][ /\ (~CursorFolderUnresolved /\ CreateFolderStep) =>
                 LET before == Reached(CursorRoot, CursorPath)
                     after == Reached(CursorRootAfter, CursorPath)
                     created == after.folders[Len(after.folders)]
                 IN /\ UnchangedOutsideCursorFolder
                    /\ after.requests = before.requests
                    /\ Len(after.folders) = Len(before.folders) + 1
                    /\ SubSeq(after.folders, 1, Len(before.folders)) = before.folders
                    /\ created.name = new_folder_name
                    /\ created.requests = <<>>
                    /\ created.folders = <<>>
                    /\ created.id \notin StoredIds
           /\ (~CursorFolderUnresolved /\ CreateRequestStep) =>
                 LET before == Reached(CursorRoot, CursorPath)
                     after == Reached(CursorRootAfter, CursorPath)
                     created == after.requests[Len(after.requests)]
                 IN /\ UnchangedOutsideCursorFolder
                    /\ after.folders = before.folders
                    /\ Len(after.requests) = Len(before.requests) + 1
                    /\ SubSeq(after.requests, 1, Len(before.requests)) = before.requests
                    /\ created = [current_request EXCEPT !.id = created.id,
                                                         !.name = new_request_name]
                    /\ created.id \notin StoredIds \cup {current_request.id} ]_vars

\* the root folder of a loaded collection holds its two subfolders, as
\* loaded, followed by the created one, and the cursor is where it was
C18_Witness ==
    /\ ~CursorFolderUnresolved
    /\ CurrentWorkspace.selected_collection = Some(0)
    /\ CursorPath = <<>>
    /\ LET folder == Reached(CursorRoot, CursorPath)
       IN /\ Len(folder.folders) = 3
          /\ folder.folders[3] = Folder(FirstId, <<"n">>, <<>>, <<>>)
          /\ SubSeq(folder.folders, 1, 2) = NestedCollection.root_folder.folders
          /\ folder.requests = NestedCollection.root_folder.requests

-----------------------------------------------------------------------------
(* Claims about the collections panel *)

\* C19 (folder selection): a click on the label of any subfolder the panel
\* draws makes that subfolder's address the selected_folder_path of the
\* current workspace.
C19_FolderSelection ==
    \A folder_path \in DrawnFolderPaths :
        ENABLED (/\ ClickFolder(folder_path)
                 /\ At(workspaces', current_workspace).selected_folder_path = folder_path)

-----------------------------------------------------------------------------
(* Claims about persistence *)

\* the backing paths of the open workspaces
BackingPaths ==
    {Unwrap(workspaces[w].file_path) : w \in {v \in DOMAIN workspaces :
                                                IsSome(workspaces[v].file_path)}}

\* C20 (persistence trigger): after every step of save current request, New
\* Collection, New Folder, New Request, New Environment, import collection
\* and add, edit or remove a variable, the file of every workspace with a
\* backing path holds exactly the collections and environments the workspace
\* has now, and every file that is no workspace's backing path is as it was
\* when the run started; a workspace without backing path writes nothing.
C20_PersistenceTrigger ==
    /\ \A w \in DOMAIN workspaces :
          IsSome(workspaces[w].file_path) =>
             LET path == Unwrap(workspaces[w].file_path)
             IN /\ path \in DOMAIN disk
                /\ IsSome(disk[path])
                /\ Unwrap(disk[path]).format = "AppStorage"
                /\ Unwrap(disk[path]).collections = workspaces[w].collections
                /\ Unwrap(disk[path]).environments = workspaces[w].environments
    /\ DOMAIN disk = DOMAIN StoreDisk
    /\ \A path \in DOMAIN disk : path \notin BackingPaths => disk[path] = StoreDisk[path]

\* the loaded workspace after a save of its request, New Folder, New
\* Environment, Add Variable with both fields edited, and an import: its file
\* holds exactly its collections and environments, and differs from the file
\* that was loaded
C20_Witness ==
    /\ CurrentWorkspace.file_path = Some(P_workspace)
    /\ Len(CurrentWorkspace.collections) = 2
    /\ CurrentWorkspace.collections[2] = ExportedCollection
    /\ Len(CurrentWorkspace.collections[1].root_folder.folders) = 3
    /\ CurrentWorkspace.collections[1].root_folder.requests[1].url = Placeholder(T_a)
    /\ Len(CurrentWorkspace.environments) = 2
    /\ CurrentWorkspace.environments[2].variables = << <<T_b, T_b>> >>
    /\ disk[P_workspace]
          = Some(StorageFile(CurrentWorkspace.collections, CurrentWorkspace.environments))
    /\ disk[P_workspace] # StoreDisk[P_workspace]

-----------------------------------------------------------------------------
(* Claims about the File menu *)

\* the picked file reads and parses as a saved workspace
Parses(picked) == IsSome(picked) /\ IsSome(ReadStorage(disk, Unwrap(picked)))

\* File > Load Workspace on a file that parses
LoadStep(picked) == Parses(picked) /\ load_from_file(picked)

\* C21 (load): loading a file that parses appends one workspace that holds
\* the file's collections and environments and has the file as its file_path,
\* and makes it the current workspace; its selected collection is index 0 if
\* the file has a collection and unset otherwise, its selected environment
\* likewise, its folder address is empty and its selected request unset; the
\* workspaces that were open are as they were, cursors included.
C21_LoadAppends ==
    [][ \A picked \in OpenPicked :
           LoadStep(picked) =>
              LET storage == Unwrap(disk[Unwrap(picked)])
                  loaded == workspaces'[Len(workspaces')]
              IN /\ Len(workspaces') = Len(workspaces) + 1
                 /\ SubSeq(workspaces', 1, Len(workspaces)) = workspaces
                 /\ current_workspace' = Len(workspaces') - 1
                 /\ loaded.collections = storage.collections
                 /\ loaded.environments = storage.environments
                 /\ loaded.file_path = picked
                 /\ loaded.selected_collection
                       = IF Len(storage.collections) > 0 THEN Some(0) ELSE None
                 /\ loaded.selected_environment
                       = IF Len(storage.environments) > 0 THEN Some(0) ELSE None
                 /\ loaded.selected_folder_path = <<>>
                 /\ loaded.selected_request = None ]_vars

\* the default workspace has an imported collection and its cursor on that
\* collection's request; the workspace loaded after that, from a file with a
\* collection and without environments, is the current one: its first
\* collection is selected and no environment
C21_Witness ==
    /\ Len(workspaces) = 2
    /\ current_workspace = 1
    /\ workspaces[1].selected_collection = Some(1)
    /\ workspaces[1].selected_request = Some(0)
    /\ workspaces[1].file_path = None
    /\ workspaces[2].file_path = Some(P_locked)
    /\ workspaces[2].collections = <<ExportedCollection>>
    /\ workspaces[2].environments = <<>>
    /\ workspaces[2].selected_collection = Some(0)
    /\ workspaces[2].selected_environment = None
    /\ workspaces[2].selected_request = None

\* the picked file cannot be read, or does not parse as a saved workspace
LoadFails(picked) == IsSome(picked) /\ ~IsSome(ReadStorage(disk, Unwrap(picked)))

\* the picked file cannot be read, or does not parse as a collection
ImportFails(picked) == IsSome(picked) /\ ~IsSome(ReadCollection(disk, Unwrap(picked)))

\* the write of save_to_file to the picked path fails
SaveFails(picked) == IsSome(picked) /\ ~WriteOk(disk, Unwrap(picked))

\* the write of auto_save_workspace fails: the current workspace has a
\* file_path and the file cannot be written
AutoSaveFails ==
    /\ IsSome(CurrentWorkspace.file_path)
    /\ ~WriteOk(disk, Unwrap(CurrentWorkspace.file_path))

\* everything the application holds in memory
memoryVars == <<workspaces, current_workspace, current_request, bridgeVars, dialogVars, next_id>>

\* C22 (persistence failures): a load or an import whose read or parse fails
\* changes nothing, in memory or on disk; a Save Workspace whose write fails
\* leaves every workspace, the file_path of the current one included, and
\* everything else in memory as it was; an import whose auto-save write fails
\* leaves in memory exactly what the import put there (the collection appended
\* to the current workspace, nothing else changed) and the file as it was; and
\* current_workspace stays an index of the workspace list, so the next frame
\* finds its workspace.
C22_FailuresLeaveState ==
    /\ [](current_workspace \in Indices(workspaces))
    /\ [][ /\ \A picked \in OpenPicked :
                 /\ (LoadFails(picked) /\ load_from_file(picked)) => UNCHANGED vars
                 /\ (ImportFails(picked) /\ import_collection(picked)) => UNCHANGED vars
                 /\ (~ImportFails(picked) /\ IsSome(picked) /\ AutoSaveFails
                        /\ import_collection(picked)) =>
                       /\ workspaces'
                             = SetAt(workspaces, current_workspace,
                                     [CurrentWorkspace EXCEPT !.collections =
                                         Push(@, Unwrap(disk[Unwrap(picked)]).collections[1])])
                       /\ UNCHANGED <<current_workspace, current_request, bridgeVars,
                                      dialogVars, next_id, disk>>
           /\ \A picked \in SavePicked :
                 (SaveFails(picked) /\ save_to_file(picked)) =>
                    UNCHANGED memoryVars ]_vars

\* a workspace saved to a new file keeps that file_path; the workspace loaded
\* from the file that cannot be written holds the imported collection in
\* memory while its file is as it was
C22_Witness ==
    /\ Len(workspaces) = 2
    /\ workspaces[1].file_path = Some(P_saved)
    /\ workspaces[2].file_path = Some(P_locked)
    /\ workspaces[2].collections = <<ExportedCollection, ExportedCollection>>
    /\ disk[P_locked] = FailDisk[P_locked]
    /\ current_workspace = 1

-----------------------------------------------------------------------------
(* Claims about the environment panel *)

\* t is s without leading and trailing whitespace: a stretch of s that
\* neither starts nor ends with whitespace, with only whitespace around it
IsTrimOf(t, s) ==
    \E p \in 1 .. (Len(s) + 1), q \in 0 .. Len(s) :
        /\ t = SubSeq(s, p, q)
        /\ \A i \in 1 .. (p - 1) : s[i] \in Whitespace
        /\ \A i \in (q + 1) .. Len(s) : s[i] \in Whitespace
        /\ t # <<>> => (t[1] \notin Whitespace /\ t[Len(t)] \notin Whitespace)

\* variables i and j carry the same trimmed name, and it is not empty
SameName(variables, i, j) ==
    \E t \in {SubSeq(variables[i][1], p, q) :
                 p \in 1 .. (Len(variables[i][1]) + 1), q \in 0 .. Len(variables[i][1])} :
        /\ t # <<>>
        /\ IsTrimOf(t, variables[i][1])
        /\ IsTrimOf(t, variables[j][1])

\* C23 (duplicate keys): for the variable list the panel shows and every index
\* i, variable i is flagged if and only if its trimmed name is not empty and
\* some other variable has the same trimmed name; so two variables that share
\* a non-blank trimmed name are both flagged, and a variable whose name is
\* blank is never flagged.
C23_DuplicateKeys ==
    LET variables == ShownVariables
        flags == DuplicateKeys(variables)
    IN /\ DOMAIN flags = DOMAIN variables
       /\ \A i \in DOMAIN variables :
             /\ flags[i] <=> \E j \in DOMAIN variables : j # i /\ SameName(variables, i, j)
             /\ IsBlank(variables[i][1]) => ~flags[i]
             /\ \A j \in DOMAIN variables :
                   (j # i /\ SameName(variables, i, j)) => (flags[i] /\ flags[j])

\* three variables: "a " and " a" are flagged, the blank one between them is not
C23_Witness ==
    /\ Len(ShownVariables) = 3
    /\ ShownVariables[1][1] = <<"a", " ">>
    /\ ShownVariables[2][1] = <<" ">>
    /\ ShownVariables[3][1] = <<" ", "a">>
    /\ DuplicateKeys(ShownVariables) = <<TRUE, FALSE, TRUE>>

-----------------------------------------------------------------------------
(* Claims about ids and cursors *)

\* the ids of a folder, its requests and everything below it, one entry per
\* node
RECURSIVE FolderIdList(_)
FolderIdList(folder) ==
    <<folder.id>> \o [i \in DOMAIN folder.requests |-> folder.requests[i].id]
                  \o Concat([i \in DOMAIN folder.folders |-> FolderIdList(folder.folders[i])])

\* the ids of the collections, folders and requests of a workspace
WorkspaceIdList(ws) ==
    Concat([c \in DOMAIN ws.collections |->
               <<ws.collections[c].id>> \o FolderIdList(ws.collections[c].root_folder)])

\* C24 (identity uniqueness): in every workspace the ids of the collections,
\* folders and requests are pairwise distinct.
C24_IdentityUniqueness ==
    \A w \in DOMAIN workspaces :
        Cardinality(Elements(WorkspaceIdList(workspaces[w])))
            = Len(WorkspaceIdList(workspaces[w]))

-----------------------------------------------------------------------------
(* Claims about the request in flight and the response shown *)

\* what a task was given at the click: the request and the resolved strings
Snapshot(task) ==
    <<task.tx, task.request, task.resolved_url, task.resolved_headers, task.resolved_body>>

\* a step of a background task: some task moved on
TaskStep == Len(tasks') = Len(tasks) /\ tasks' # tasks

Delivered(result) ==
    IF IsSome(result.ok) THEN Unwrap(result.ok) ELSE ErrorResponse(Unwrap(result.err))

\* C26 (response replacement): while is_loading is set no response is held,
\* so every dispatch leaves current_response empty; a response that is held
\* is the one delivered for the latest dispatch: that task has ended, the UI
\* has taken its result, and current_response is that result as update
\* stores it.
C26_ResponseReplacement ==
    /\ is_loading => current_response = None
    /\ IsSome(current_response) =>
          /\ tasks # <<>>
          /\ tasks[Len(tasks)].pc = "done"
          /\ channels[tasks[Len(tasks)].tx].received = 1
          /\ Unwrap(current_response) = Delivered(Unwrap(tasks[Len(tasks)].result))

\* the first dispatch was answered by the server and shown; the second failed
\* in transport, and its error response is the one held now
C26_Witness ==
    /\ Len(tasks) = 2
    /\ ~is_loading
    /\ IsSome(tasks[1].result)
    /\ IsSome(Unwrap(tasks[1].result).ok)
    /\ channels[tasks[1].tx].received = 1
    /\ IsSome(tasks[2].result)
    /\ IsSome(Unwrap(tasks[2].result).err)
    /\ current_response = Some(ErrorResponse(Unwrap(Unwrap(tasks[2].result).err)))

\* a step sets or clears is_loading or response_receiver
LoadingChanges == is_loading' # is_loading \/ response_receiver' # response_receiver

\* C27 (loading flag and receiver): is_loading is set exactly when a receiver
\* is held; send_request sets both, the frame that receives a result clears
\* both, and no other step changes either.
C27_LoadingIffReceiver ==
    /\ [](is_loading <=> IsSome(response_receiver))
    /\ [][ LoadingChanges =>
              \/ /\ Len(tasks') = Len(tasks) + 1
                 /\ ~is_loading /\ is_loading'
                 /\ response_receiver = None /\ IsSome(response_receiver')
              \/ /\ CanReceive
                 /\ tasks' = tasks
                 /\ is_loading /\ ~is_loading'
                 /\ IsSome(response_receiver) /\ response_receiver' = None ]_vars

\* after a first dispatch was received (flag and receiver cleared) a second
\* one is in flight: the flag is set and the receiver of its channel held
C27_Witness ==
    /\ Len(tasks) = 2
    /\ channels[tasks[1].tx].received = 1
    /\ is_loading
    /\ response_receiver = Some(tasks[2].tx)
    /\ tasks[2].pc = "spawned"

-----------------------------------------------------------------------------
(* The cursors: every operation that moves one or grows a list under one *)

\* the workspace files File > Load Workspace is pointed at: one with a
\* collection and an environment, one with neither
CursorPicked == {None, Some(P_workspace), Some(P_empty)}

\* the constructed state after File > Import Collection of the export file
\* (the default workspace has no file, so nothing was written), with the
\* New Environment dialog open and a name typed into it
InitCursor ==
    /\ workspaces = <<[DefaultWorkspace(T_Default, 1, 2) EXCEPT
                          !.collections = Push(@, ExportedCollection)]>>
    /\ current_workspace = 0
    /\ current_request = DefaultRequest(3)
    /\ BridgeIdle
    /\ new_folder_dialog = FALSE
    /\ new_folder_name = <<>>
    /\ new_request_dialog = FALSE
    /\ new_request_name = <<>>
    /\ new_collection_dialog = FALSE
    /\ new_collection_name = <<>>
    /\ new_environment_dialog = TRUE
    /\ new_environment_name = <<"n">>
    /\ new_workspace_dialog = FALSE
    /\ new_workspace_name = <<>>
    /\ disk = StoreDisk
    /\ next_id = FirstId

NextCursor ==
    \/ \E picked \in CursorPicked : load_from_file(picked)
    \/ MenuNewWorkspace
    \/ \E name \in Names : TypeWorkspaceName(name)
    \/ CreateWorkspace
    \/ CancelWorkspace
    \/ \E idx \in Indices(workspaces) : SwitchWorkspace(idx)
    \/ \E collection_idx \in Indices(CurrentWorkspace.collections) :
          ClickCollection(collection_idx)
    \/ \E folder_path \in DrawnFolderPaths : ClickFolder(folder_path)
    \/ \E drawn \in DrawnRequestLabels : ClickRequest(drawn[1], drawn[2])
    \/ \E selection \in {None, Some(0), Some(1)} : SelectEnvironment(selection)
    \/ CreateEnvironment

SpecCursor == InitCursor /\ [][NextCursor]_vars

\* an Option<usize> cursor into list: unset, or an index of the list
UnsetOrInRange(cursor, list) == cursor = None \/ Unwrap(cursor) \in Indices(list)

\* the cursors of one workspace: the selected collection and environment are
\* unset or in range; with a collection selected the folder address resolves
\* in it and the selected request, if set, is an index of that folder's
\* requests; with none selected the address is empty and no request is selected
CursorsValid(ws) ==
    /\ UnsetOrInRange(ws.selected_collection, ws.collections)
    /\ UnsetOrInRange(ws.selected_environment, ws.environments)
    /\ IF IsSome(ws.selected_collection)
       THEN LET folder == get_folder_by_path(At(ws.collections, Unwrap(ws.selected_collection)),
                                             ws.selected_folder_path)
            IN /\ IsSome(folder)
               /\ UnsetOrInRange(ws.selected_request, Unwrap(folder).requests)
       ELSE ws.selected_folder_path = <<>> /\ ws.selected_request = None

\* C28 (cursor validity): the workspace list is never empty, current_workspace
\* is an index of it, and in every workspace the selected collection and the
\* selected environment are unset or in range, the selected folder address
\* resolves to a folder of the selected collection, and the selected request,
\* if set, is an index of that folder's request list.
C28_CursorValidity ==
    /\ workspaces # <<>>
    /\ current_workspace \in Indices(workspaces)
    /\ \A w \in Indices(workspaces) : CursorsValid(At(workspaces, w))

\* two workspaces, the second one current; in the first the second collection
\* is selected with a request of it selected and no environment selected
C28_Witness ==
    /\ Len(workspaces) = 2
    /\ current_workspace = 1
    /\ At(workspaces, 0).selected_collection = Some(1)
    /\ At(workspaces, 0).selected_request = Some(0)
    /\ At(workspaces, 0).selected_environment = None
    /\ Len(At(At(workspaces, 0).collections, 0).root_folder.requests) = 0

-----------------------------------------------------------------------------
(* Claims about the edited copy and the stored tree *)

\* the stored request the cursor of ws resolves to, as save_current_request
\* finds it: the selected collection, the folder at the selected address and
\* the selected request all exist
CursorRequest(ws) ==
    IF IsSome(ws.selected_collection) /\ IsSome(ws.selected_request)
       /\ Unwrap(ws.selected_collection) < Len(ws.collections)
    THEN LET folder == get_folder_by_path(At(ws.collections, Unwrap(ws.selected_collection)),
                                          ws.selected_folder_path)
         IN IF IsSome(folder) /\ Unwrap(ws.selected_request) < Len(Unwrap(folder).requests)
            THEN Some(At(Unwrap(folder).requests, Unwrap(ws.selected_request)))
            ELSE None
    ELSE None

\* C29 (the edited copy stays bound): whenever the cursor of the current
\* workspace resolves to a stored request, current_request has the id of that
\* stored request, so that save_current_request writes a request over itself.
C29_EditedCopyBound ==
    IsSome(CursorRequest(CurrentWorkspace)) =>
        current_request.id = Unwrap(CursorRequest(CurrentWorkspace)).id

\* the addresses of folder and of every folder below it, relative to folder
RECURSIVE FolderAddresses(_)
FolderAddresses(folder) ==
    {<<>>} \cup UNION { {<<i>> \o p : p \in FolderAddresses(At(folder.folders, i))}
                        : i \in Indices(folder.folders) }

\* every collection, folder and request of before has, at the same address in
\* after, a node with the same id
SameIdsAtAddresses(before, after) ==
    \A c \in Indices(before.collections) :
       /\ c \in Indices(after.collections)
       /\ At(after.collections, c).id = At(before.collections, c).id
       /\ \A p \in FolderAddresses(At(before.collections, c).root_folder) :
             LET was == Unwrap(get_folder_by_path(At(before.collections, c), p))
                 now == get_folder_by_path(At(after.collections, c), p)
             IN /\ IsSome(now)
                /\ Unwrap(now).id = was.id
                /\ \A r \in Indices(was.requests) :
                      /\ r \in Indices(Unwrap(now).requests)
                      /\ At(Unwrap(now).requests, r).id = At(was.requests, r).id

\* C30 (address stability): a collection index, folder address or request
\* index that resolves in a workspace resolves after every step to a node
\* with the same id, and so in every later state.
C30_AddressStability ==
    [][ \A w \in Indices(workspaces) :
           /\ w \in Indices(workspaces')
           /\ SameIdsAtAddresses(At(workspaces, w), At(workspaces', w)) ]_vars

=============================================================================
